---------------------------- MODULE Spec2Model ----------------------------
(***************************************************************************)
(* Model of the lt-risk-engine scoring service.                            *)
(*                                                                         *)
(* Units.  Python floats are modelled by integers in a fixed unit:         *)
(*   money                     CHF                                         *)
(*   dates                     day numbers (day 0 = the first model day)   *)
(*   dscr_value, disposable    hundredths (the code rounds to 2 decimals)  *)
(*   dealer_default_rate       basis points (0.03 = 300)                   *)
(*   weights                   hundredths (0.15 = 15)                      *)
(*   probability_of_default    thousandths (0.015 = 15)                    *)
(*   raw_score, total_score    points (every bin score is integral)        *)
(* Optional[T] is None (the empty tuple) or Some(v) (a 1-tuple).           *)
(***************************************************************************)
EXTENDS Integers, Sequences, FiniteSets, TLC

VARIABLES
    request,          \* the RiskEvaluationRequest being served, or the arguments
                      \* of the function applied
    today,            \* the wall clock, as a day number
    next_uuid,        \* number of uuid4() values handed out so far
    response,         \* result of the latest evaluate(request), or of the function
    prev_response,    \* result of the evaluate(request) before that
    risk_assessment,  \* rows of lt_risk_engine.risk_assessment
    calls,            \* in-flight evaluate_risk handlers, by call id
    kafka_enabled,    \* settings.kafka_enabled
    _producer,        \* event_publisher._producer
    producers,        \* the AIOKafkaProducer objects created so far, by identity
    kafka_topic,      \* messages delivered to risk.assessment.events
    calibration,      \* the calibration tables edited by the admin API
    publish_txs,      \* publish_version transactions not yet committed
    evaluating,       \* the evaluate() call observed while the tables change
    audit_log         \* rows of calibration_audit_log

vars == <<request, today, next_uuid, response, prev_response, risk_assessment,
          calls, kafka_enabled, _producer, producers, kafka_topic, calibration,
          publish_txs, evaluating, audit_log>>

engineVars == <<request, today, next_uuid, response, prev_response>>
apiVars == <<risk_assessment, calls, kafka_enabled, _producer, producers, kafka_topic>>
adminVars == <<calibration, publish_txs, evaluating, audit_log>>

-----------------------------------------------------------------------------
(* Bounds of the model *)

\* the clock runs over days 0..MaxDay
MaxDay == 2
\* at most MaxEvals evaluate() calls are made on one request
MaxEvals == 2
\* at most MaxCalls requests reach POST /v1/risk/evaluate
MaxCalls == 2
\* at most MaxAdminOps audit entries are written by admin requests
MaxAdminOps == 2

-----------------------------------------------------------------------------
(* Python values *)

None == <<>>
Some(v) == <<v>>
\* `x or 0` for an Optional number
Or0(x) == IF x = None THEN 0 ELSE x[1]

\* round-half-even of n/d for d > 0: Python's round() and the 'f' / '%' formats
RoundHalfEven(n, d) ==
    LET q == n \div d
        r == n % d
    IN  IF 2 * r < d THEN q
        ELSE IF 2 * r > d THEN q + 1
        ELSE IF q % 2 = 0 THEN q ELSE q + 1

Abs(n) == IF n < 0 THEN -n ELSE n

\* f"{x:.1f}" of a value given in tenths
Fmt1(tenths) ==
    (IF tenths < 0 THEN "-" ELSE "") \o ToString(Abs(tenths) \div 10)
        \o "." \o ToString(Abs(tenths) % 10)

\* f"{x:.2f}" of a value given in hundredths
Fmt2(h) ==
    (IF h < 0 THEN "-" ELSE "") \o ToString(Abs(h) \div 100) \o "."
        \o ToString((Abs(h) % 100) \div 10) \o ToString(Abs(h) % 10)

-----------------------------------------------------------------------------
(* services/dscr_calculator.py *)

MINIMUM_LIVING_COST_SINGLE == 1350
\* the 10% safety margin, in percent
MINIMUM_LIVING_COST_BUFFER_PCT == 10

DSCROutput(dscr_value, monthly_disposable_income, monthly_payment, calculation_method, is_valid) ==
    [dscr_value |-> dscr_value,
     monthly_disposable_income |-> monthly_disposable_income,
     monthly_payment |-> monthly_payment,
     calculation_method |-> calculation_method,
     is_valid |-> is_valid]

\* faulty variant: only an absent income falls back, an income of 0 is computed
_calc_b2c_zero_income_valid(customer, monthly_payment) ==
    LET net_income == customer.monthly_net_income
        total_deductions ==
            Or0(customer.monthly_rent) + Or0(customer.monthly_insurance)
              + Or0(customer.monthly_alimony)
              + Or0(customer.monthly_existing_obligations) + 1485
        disposable == net_income[1] - total_deductions
    IN  IF net_income = None
        THEN DSCROutput(None, None, monthly_payment, "FALLBACK", FALSE)
        ELSE DSCROutput(Some(RoundHalfEven(disposable * 100, monthly_payment)),
                        Some(disposable * 100), monthly_payment,
                        "B2C_NET_INCOME", TRUE)

\* faulty variant: an income below the deductions is reported as not calculable
_calc_b2c_negative_invalid(customer, monthly_payment) ==
    LET net_income == customer.monthly_net_income
        total_deductions ==
            Or0(customer.monthly_rent) + Or0(customer.monthly_insurance)
              + Or0(customer.monthly_alimony)
              + Or0(customer.monthly_existing_obligations) + 1485
        disposable == net_income[1] - total_deductions
    IN  IF net_income = None \/ net_income[1] <= 0
        THEN DSCROutput(None, None, monthly_payment, "FALLBACK", FALSE)
        ELSE IF disposable < 0
        THEN DSCROutput(None, Some(disposable * 100), monthly_payment,
                        "B2C_NET_INCOME", FALSE)
        ELSE DSCROutput(Some(RoundHalfEven(disposable * 100, monthly_payment)),
                        Some(disposable * 100), monthly_payment,
                        "B2C_NET_INCOME", TRUE)

\* disposable, dscr = disposable / monthly_payment, both rounded to 2 decimals
_calc_b2c(customer, monthly_payment) ==
    LET net_income == customer.monthly_net_income
        rent == Or0(customer.monthly_rent)
        insurance == Or0(customer.monthly_insurance)
        alimony == Or0(customer.monthly_alimony)
        existing_obligations == Or0(customer.monthly_existing_obligations)
        min_living == (MINIMUM_LIVING_COST_SINGLE
                         * (100 + MINIMUM_LIVING_COST_BUFFER_PCT)) \div 100
        total_deductions ==
            rent + insurance + alimony + existing_obligations + min_living
        disposable == net_income[1] - total_deductions
    IN  IF net_income = None \/ net_income[1] <= 0
        THEN DSCROutput(None, None, monthly_payment, "FALLBACK", FALSE)
        ELSE IF monthly_payment <= 0
        THEN DSCROutput(None, Some(disposable * 100), monthly_payment,
                        "B2C_NET_INCOME", FALSE)
        ELSE DSCROutput(Some(RoundHalfEven(disposable * 100, monthly_payment)),
                        Some(disposable * 100), monthly_payment,
                        "B2C_NET_INCOME", TRUE)

_calc_b2b(customer, monthly_payment, term_months) ==
    LET ebitda == customer.annual_ebitda
        total_existing_debt_service == Or0(customer.total_debt_service)
        new_annual_service == monthly_payment * 12
        total_annual_ds == total_existing_debt_service + new_annual_service
    IN  IF ebitda = None \/ ebitda[1] <= 0
        THEN DSCROutput(None, None, monthly_payment, "FALLBACK", FALSE)
        ELSE IF total_annual_ds <= 0
        THEN DSCROutput(None, None, monthly_payment, "B2B_EBITDA", FALSE)
        ELSE DSCROutput(Some(RoundHalfEven(ebitda[1] * 100, total_annual_ds)),
                        Some(RoundHalfEven((ebitda[1] - 12 * monthly_payment) * 100, 12)),
                        monthly_payment, "B2B_EBITDA", TRUE)

\* faulty variant: the B2B path is taken whenever an EBITDA is present
calculate_dscr_by_ebitda(customer, contract) ==
    IF customer.annual_ebitda # None
    THEN _calc_b2b(customer, contract.monthly_payment, contract.term_months)
    ELSE _calc_b2c(customer, contract.monthly_payment)

calculate_dscr(customer, contract) ==
    IF customer.party_type = "B2B"
    THEN _calc_b2b(customer, contract.monthly_payment, contract.term_months)
    ELSE _calc_b2c(customer, contract.monthly_payment)

-----------------------------------------------------------------------------
(* scoring/factors.py *)

FactorResult(factor_name, raw_value, bin_label, raw_score) ==
    [factor_name |-> factor_name, raw_value |-> raw_value,
     bin_label |-> bin_label, raw_score |-> raw_score]

\* ltv = financed_amount / vehicle_price * 100, compared by cross-multiplying
\* faulty variant: an LTV of exactly 75% still falls into the best bin
score_ltv_75_inclusive(financed_amount, vehicle_price) ==
    LET shown == Fmt1(RoundHalfEven(financed_amount * 1000, vehicle_price)) \o "%"
    IN  IF vehicle_price <= 0
        THEN FactorResult("LTV", "N/A", "MISSING", -5)
        ELSE IF financed_amount * 100 <= 75 * vehicle_price
        THEN FactorResult("LTV", shown, "<75%", 8)
        ELSE IF financed_amount * 100 <= 85 * vehicle_price
        THEN FactorResult("LTV", shown, "75-85%", 4)
        ELSE IF financed_amount * 100 <= 95 * vehicle_price
        THEN FactorResult("LTV", shown, "85-95%", 0)
        ELSE FactorResult("LTV", shown, ">95%", -8)

score_ltv(financed_amount, vehicle_price) ==
    LET shown == Fmt1(RoundHalfEven(financed_amount * 1000, vehicle_price)) \o "%"
    IN  IF vehicle_price <= 0
        THEN FactorResult("LTV", "N/A", "MISSING", -5)
        ELSE IF financed_amount * 100 < 75 * vehicle_price
        THEN FactorResult("LTV", shown, "<75%", 8)
        ELSE IF financed_amount * 100 <= 85 * vehicle_price
        THEN FactorResult("LTV", shown, "75-85%", 4)
        ELSE IF financed_amount * 100 <= 95 * vehicle_price
        THEN FactorResult("LTV", shown, "85-95%", 0)
        ELSE FactorResult("LTV", shown, ">95%", -8)

score_term(term_months) ==
    LET shown == ToString(term_months) \o "m"
    IN  IF term_months <= 36 THEN FactorResult("Term", shown, "<=36m", 5)
        ELSE IF term_months <= 48 THEN FactorResult("Term", shown, "37-48m", 6)
        ELSE FactorResult("Term", shown, ">48m", -3)

\* age = (ref - date_of_birth).days / 365.25; age < n iff 4 * days < 1461 * n
score_age(date_of_birth, ref) ==
    LET days4 == 4 * (ref - date_of_birth)
        shown == ToString(RoundHalfEven(days4, 1461))
    IN  IF days4 < 1461 * 18 THEN FactorResult("Age", shown, "<18 (minor)", -10)
        ELSE IF days4 <= 1461 * 25 THEN FactorResult("Age", shown, "18-25", -6)
        ELSE IF days4 <= 1461 * 35 THEN FactorResult("Age", shown, "26-35", 2)
        ELSE IF days4 <= 1461 * 45 THEN FactorResult("Age", shown, "36-45", 0)
        ELSE IF days4 <= 1461 * 55 THEN FactorResult("Age", shown, "46-55", 7)
        ELSE FactorResult("Age", shown, "56+", -2)

score_crif(crif_score) ==
    IF crif_score = None THEN FactorResult("CRIF", "N/A", "MISSING", -5)
    ELSE LET shown == ToString(crif_score[1])
         IN  IF crif_score[1] >= 700
             THEN FactorResult("CRIF", shown, ">=700 (Excellent)", 8)
             ELSE IF crif_score[1] >= 500
             THEN FactorResult("CRIF", shown, "500-699 (Good)", 4)
             ELSE IF crif_score[1] >= 300
             THEN FactorResult("CRIF", shown, "300-499 (Fair)", -2)
             ELSE FactorResult("CRIF", shown, "<300 (Poor)", -8)

score_intrum(intrum_score) ==
    IF intrum_score = None \/ intrum_score = Some(0)
    THEN FactorResult("Intrum", "0", "0 (No data)", -4)
    ELSE LET shown == ToString(intrum_score[1])
         IN  IF intrum_score[1] = 1 THEN FactorResult("Intrum", shown, "1", 1)
             ELSE IF intrum_score[1] <= 3 THEN FactorResult("Intrum", shown, "2-3", -1)
             ELSE FactorResult("Intrum", shown, ">3 (Established)", 5)

\* bins 0, 3, 7, 15 are 0, 300, 700, 1500 hundredths
\* faulty variant: a negative DSCR falls into the lowest non-negative bin
score_dscr_without_negative_bin(dscr_value) ==
    IF dscr_value = None THEN FactorResult("DSCR", "N/A", "MISSING", -5)
    ELSE LET v == dscr_value[1]
             shown == Fmt2(v)
         IN  IF v <= 300 THEN FactorResult("DSCR", shown, "0-3 (Tight)", -3)
             ELSE IF v <= 700 THEN FactorResult("DSCR", shown, "3-7 (Adequate)", 0)
             ELSE IF v <= 1500 THEN FactorResult("DSCR", shown, "7-15 (Good)", 3)
             ELSE FactorResult("DSCR", shown, ">15 (Strong)", 7)

score_dscr(dscr_value) ==
    IF dscr_value = None THEN FactorResult("DSCR", "N/A", "MISSING", -5)
    ELSE LET v == dscr_value[1]
             shown == Fmt2(v)
         IN  IF v < 0 THEN FactorResult("DSCR", shown, "<0 (Negative)", -8)
             ELSE IF v <= 300 THEN FactorResult("DSCR", shown, "0-3 (Tight)", -3)
             ELSE IF v <= 700 THEN FactorResult("DSCR", shown, "3-7 (Adequate)", 0)
             ELSE IF v <= 1500 THEN FactorResult("DSCR", shown, "7-15 (Good)", 3)
             ELSE FactorResult("DSCR", shown, ">15 (Strong)", 7)

\* str.upper() on the PermitType values
PermitUpper(p) ==
    CASE p = "Diplomat" -> "DIPLOMAT"
      [] p = "Unknown" -> "UNKNOWN"
      [] OTHER -> p

score_permit(party_type, permit_type) ==
    IF party_type = "B2B" THEN FactorResult("Permit", "B2B", "B2B", -3)
    ELSE LET permit == IF permit_type = None THEN "UNKNOWN"
                       ELSE PermitUpper(permit_type[1])
         IN  IF permit = "C" THEN FactorResult("Permit", "C_permit", "C_permit", 5)
             ELSE IF permit = "B" THEN FactorResult("Permit", "B_permit", "B_permit", -3)
             ELSE IF permit \in {"L", "DIPLOMAT"}
             THEN FactorResult("Permit", permit, permit, -1)
             ELSE FactorResult("Permit", "Unknown", "Other_B2C", 2)

score_vehicle_price_tier(vehicle_price) ==
    LET shown == ToString(vehicle_price)
    IN  IF vehicle_price <= 20000
        THEN FactorResult("VehiclePriceTier", shown, "<=20k (Economy)", -2)
        ELSE IF vehicle_price <= 50000
        THEN FactorResult("VehiclePriceTier", shown, "20k-50k (Mid)", 3)
        ELSE IF vehicle_price <= 100000
        THEN FactorResult("VehiclePriceTier", shown, "50k-100k (Premium)", 2)
        ELSE FactorResult("VehiclePriceTier", shown, ">100k (Luxury)", -1)

score_zek(has_entries, entry_count) ==
    IF has_entries = None THEN FactorResult("ZEK", "N/A", "NOT_CHECKED", 0)
    ELSE IF ~has_entries[1]
    THEN FactorResult("ZEK", "Clean", "No negative entries", 5)
    ELSE LET count == IF Or0(entry_count) = 0 THEN 1 ELSE entry_count[1]
         IN  IF count <= 1
             THEN FactorResult("ZEK", ToString(count) \o " entry", "1 entry", -3)
             ELSE FactorResult("ZEK", ToString(count) \o " entries", "2+ entries", -7)

\* default rate bins 3%, 8%, 15% are 300, 800, 1500 basis points
score_dealer_risk(dealer_default_rate, dealer_active_months) ==
    IF \/ dealer_default_rate = None
       \/ dealer_active_months = None
       \/ dealer_active_months[1] < 6
    THEN FactorResult("DealerRisk", "New/Unknown", "NEW_DEALER", -2)
    ELSE LET r == dealer_default_rate[1]
             shown == Fmt1(RoundHalfEven(r, 10)) \o "%"
         IN  IF r <= 300 THEN FactorResult("DealerRisk", shown, "<=3% (Low)", 4)
             ELSE IF r <= 800 THEN FactorResult("DealerRisk", shown, "3-8% (Average)", 0)
             ELSE IF r <= 1500 THEN FactorResult("DealerRisk", shown, "8-15% (Elevated)", -3)
             ELSE FactorResult("DealerRisk", shown, ">15% (High)", -6)

-----------------------------------------------------------------------------
(* scoring/b2b_factors.py *)

score_company_age(company_age_years) ==
    IF company_age_years = None
    THEN FactorResult("CompanyAge", "N/A", "MISSING", -5)
    ELSE LET age == company_age_years[1]
             shown == ToString(age) \o "y"
         IN  IF age < 2 THEN FactorResult("CompanyAge", shown, "<2y (Too new)", -10)
             ELSE IF age < 5 THEN FactorResult("CompanyAge", shown, "2-5y (Startup)", -4)
             ELSE IF age < 10 THEN FactorResult("CompanyAge", shown, "5-10y (Growing)", 0)
             ELSE IF age < 20
             THEN FactorResult("CompanyAge", shown, "10-20y (Established)", 5)
             ELSE FactorResult("CompanyAge", shown, ">=20y (Mature)", 8)

\* ratio = total_debt_service / annual_revenue; ratio < 0.20 iff 5 * ds < revenue
score_debt_ratio(total_debt_service, annual_revenue) ==
    IF \/ annual_revenue = None
       \/ annual_revenue[1] <= 0
       \/ total_debt_service = None
    THEN FactorResult("DebtRatio", "N/A", "MISSING", -4)
    ELSE LET ds == total_debt_service[1]
             rev == annual_revenue[1]
             shown == ToString(RoundHalfEven(ds * 100, rev)) \o "%"
         IN  IF ds * 100 < 20 * rev
             THEN FactorResult("DebtRatio", shown, "<20% (Low leverage)", 5)
             ELSE IF ds * 100 < 40 * rev
             THEN FactorResult("DebtRatio", shown, "20-40% (Moderate)", 2)
             ELSE IF ds * 100 < 60 * rev
             THEN FactorResult("DebtRatio", shown, "40-60% (High)", -2)
             ELSE FactorResult("DebtRatio", shown, ">60% (Distressed)", -6)

\* bins 1.0, 1.25, 1.5, 2.0 are 100, 125, 150, 200 hundredths
score_b2b_dscr(dscr_value) ==
    IF dscr_value = None THEN FactorResult("DSCR", "N/A", "MISSING", -5)
    ELSE LET v == dscr_value[1]
             shown == Fmt2(v)
         IN  IF v < 100 THEN FactorResult("DSCR", shown, "<1.0 (Cannot service)", -8)
             ELSE IF v < 125 THEN FactorResult("DSCR", shown, "1.0-1.25 (Tight)", -3)
             ELSE IF v < 150 THEN FactorResult("DSCR", shown, "1.25-1.5 (Adequate)", 0)
             ELSE IF v < 200 THEN FactorResult("DSCR", shown, "1.5-2.0 (Good)", 5)
             ELSE FactorResult("DSCR", shown, ">=2.0 (Strong)", 7)

\* str.upper() on the LegalForm values
LegalFormUpper(f) ==
    CASE f = "GmbH" -> "GMBH"
      [] f = "Einzelfirma" -> "EINZELFIRMA"
      [] f = "Other" -> "OTHER"
      [] f = "Unknown" -> "UNKNOWN"
      [] OTHER -> f

Max(a, b) == IF a >= b THEN a ELSE b

score_company_type(legal_form, zefix_status) ==
    LET status == IF zefix_status = None THEN "UNKNOWN" ELSE zefix_status[1]
        form == IF legal_form = None THEN "UNKNOWN" ELSE LegalFormUpper(legal_form[1])
        shown == form \o "/" \o status
        byForm ==
            IF form = "AG" THEN <<5, "AG (Aktiengesellschaft)">>
            ELSE IF form = "GMBH" THEN <<3, "GmbH">>
            ELSE IF form = "KG" THEN <<0, "KG (Kommanditgesellschaft)">>
            ELSE IF form = "EINZELFIRMA" THEN <<-2, "Einzelfirma (Sole prop.)">>
            ELSE IF form \in {"OTHER", "UNKNOWN"} THEN <<0, "Other/Unknown form">>
            ELSE <<0, form>>
    IN  IF status \in {"DISSOLVED", "SUSPENDED"}
        THEN FactorResult("CompanyType", shown, "Dissolved/Suspended", -10)
        ELSE IF status = "NOT_FOUND"
        THEN FactorResult("CompanyType", shown, "Not in Zefix", -8)
        ELSE IF status = "UNKNOWN"
        THEN FactorResult("CompanyType", shown,
                          byForm[2] \o " (Zefix not checked)", Max(byForm[1] - 1, -3))
        ELSE FactorResult("CompanyType", shown, byForm[2], byForm[1])

score_industry_risk(industry_risk) ==
    LET risk == IF industry_risk = None THEN "Unknown" ELSE industry_risk[1]
    IN  IF risk = "Low" THEN FactorResult("IndustryRisk", risk, "Low risk industry", 5)
        ELSE IF risk = "Medium"
        THEN FactorResult("IndustryRisk", risk, "Medium risk industry", 0)
        ELSE IF risk = "High"
        THEN FactorResult("IndustryRisk", risk, "High risk industry", -4)
        ELSE IF risk = "Critical"
        THEN FactorResult("IndustryRisk", risk, "Critical risk industry", -8)
        ELSE FactorResult("IndustryRisk", risk, "Industry not classified", -2)

-----------------------------------------------------------------------------
(* scoring/legacy_scorecard.py *)

\* date - None raises TypeError: the result is a value or the exception
Raised(error) == [kind |-> "raised", error |-> error]

LegacyLtvPoints(contract, vehicle) ==
    LET f100 == IF vehicle.vehicle_price > 0 THEN contract.financed_amount * 100
                ELSE 100
        p == IF vehicle.vehicle_price > 0 THEN vehicle.vehicle_price ELSE 1
    IN  IF 75 * p <= f100 /\ f100 <= 85 * p THEN 15
        ELSE IF 85 * p < f100 /\ f100 <= 95 * p THEN 7
        ELSE IF f100 < 75 * p THEN 36
        ELSE -18

LegacyTermPoints(term_months) ==
    IF 37 <= term_months /\ term_months <= 48 THEN 25
    ELSE IF term_months > 48 THEN -7
    ELSE 22

\* age = (now - date_of_birth).days / 365.25, compared as 4 * days with 1461 * n
LegacyAgePoints(date_of_birth, now) ==
    LET days4 == 4 * (now - date_of_birth)
    IN  IF 1461 * 18 <= days4 /\ days4 <= 1461 * 25 THEN -16
        ELSE IF 1461 * 26 <= days4 /\ days4 <= 1461 * 35 THEN 6
        ELSE IF 1461 * 36 <= days4 /\ days4 <= 1461 * 45 THEN -3
        ELSE IF 1461 * 46 <= days4 /\ days4 <= 1461 * 55 THEN 28
        ELSE IF days4 >= 1461 * 56 THEN -8
        ELSE 0

LegacyIntrumPoints(intrum) ==
    IF intrum = None \/ intrum = Some(0) THEN -7
    ELSE IF intrum[1] = 1 THEN 1
    ELSE IF 1 < intrum[1] /\ intrum[1] <= 3 THEN -3
    ELSE IF intrum[1] > 3 THEN 8
    ELSE 0

LegacyPermitPoints(cust) ==
    IF cust.party_type = "B2B" THEN -6
    ELSE IF cust.permit_type = Some("B") THEN -5
    ELSE IF cust.permit_type = Some("C") THEN 6
    ELSE 7

LegacyDscrPoints(dscr) ==
    IF dscr = None THEN 0
    ELSE IF 0 <= dscr[1] /\ dscr[1] <= 300 THEN -1
    ELSE IF 300 < dscr[1] /\ dscr[1] <= 700 THEN 0
    ELSE IF 700 < dscr[1] /\ dscr[1] <= 1500 THEN -3
    ELSE IF dscr[1] < 0 THEN -6
    ELSE IF dscr[1] > 1500 THEN 9
    ELSE 0

\* faulty variant: the B band starts one point early, at 400
LegacyBandFrom400(score) ==
    IF score > 428 THEN "A"
    ELSE IF score >= 400 THEN "B"
    ELSE IF score >= 381 THEN "C"
    ELSE IF score >= 361 THEN "D"
    ELSE "E"

LegacyBand(score) ==
    IF score > 428 THEN "A"
    ELSE IF score >= 401 THEN "B"
    ELSE IF score >= 381 THEN "C"
    ELSE IF score >= 361 THEN "D"
    ELSE "E"

LEGACY_INTERCEPT == 389

compute_legacy_score(req, dscr_output, now) ==
    IF req.customer.date_of_birth = None
    THEN Raised("TypeError")
    ELSE LET score == LEGACY_INTERCEPT
                        + LegacyLtvPoints(req.contract, req.vehicle)
                        + LegacyTermPoints(req.contract.term_months)
                        + LegacyAgePoints(req.customer.date_of_birth[1], now)
                        + LegacyIntrumPoints(req.customer.intrum_score)
                        + LegacyPermitPoints(req.customer)
                        + LegacyDscrPoints(dscr_output.dscr_value)
         IN  [kind |-> "value", score |-> score, band |-> LegacyBand(score)]

-----------------------------------------------------------------------------
(* scoring/engine.py *)

FACTOR_WEIGHTS ==
    [LTV |-> 15, Term |-> 10, Age |-> 10, CRIF |-> 15, Intrum |-> 10, DSCR |-> 15,
     Permit |-> 10, VehiclePriceTier |-> 5, ZEK |-> 5, DealerRisk |-> 5]

B2B_FACTOR_WEIGHTS ==
    [LTV |-> 15, Term |-> 10, CompanyAge |-> 10, CRIF |-> 10, DebtRatio |-> 10,
     DSCR |-> 20, CompanyType |-> 10, VehiclePriceTier |-> 5, IndustryRisk |-> 10,
     DealerRisk |-> 5]

TIER_THRESHOLDS == << <<25, "BRIGHT_GREEN">>, <<10, "GREEN">>, <<0, "YELLOW">> >>

TIER_TO_DECISION ==
    [BRIGHT_GREEN |-> "AUTO_APPROVE", GREEN |-> "APPROVE_STANDARD",
     YELLOW |-> "MANUAL_REVIEW", RED |-> "DECLINE"]

pd_map == [BRIGHT_GREEN |-> 15, GREEN |-> 35, YELLOW |-> 70, RED |-> 150]

_score_b2c(req, dscr_output, now) ==
    LET cust == req.customer
    IN  << score_ltv(req.contract.financed_amount, req.vehicle.vehicle_price),
           score_term(req.contract.term_months),
           IF cust.date_of_birth # None
           THEN score_age(cust.date_of_birth[1], now)
           ELSE FactorResult("Age", "N/A", "MISSING", -5),
           score_crif(cust.crif_score),
           score_intrum(cust.intrum_score),
           score_dscr(dscr_output.dscr_value),
           score_permit(cust.party_type, cust.permit_type),
           score_vehicle_price_tier(req.vehicle.vehicle_price),
           score_zek(cust.zek_has_entries, cust.zek_entry_count),
           score_dealer_risk(req.dealer.dealer_default_rate,
                             req.dealer.dealer_active_months) >>

\* faulty variant: the B2B path leaves the IndustryRisk factor out
_score_b2b_without_industry(req, dscr_output) ==
    LET cust == req.customer
        total_annual_ds == Or0(cust.total_debt_service) + req.contract.monthly_payment * 12
    IN  << score_ltv(req.contract.financed_amount, req.vehicle.vehicle_price),
           score_term(req.contract.term_months),
           score_company_age(cust.company_age_years),
           score_crif(cust.crif_score),
           score_debt_ratio(Some(total_annual_ds), cust.annual_revenue),
           score_b2b_dscr(dscr_output.dscr_value),
           score_company_type(cust.legal_form, cust.zefix_status),
           score_vehicle_price_tier(req.vehicle.vehicle_price),
           score_dealer_risk(req.dealer.dealer_default_rate,
                             req.dealer.dealer_active_months) >>

\* faulty variant: DebtRatio is taken from the existing debt service alone
_score_b2b_existing_debt_only(req, dscr_output) ==
    LET cust == req.customer
    IN  << score_ltv(req.contract.financed_amount, req.vehicle.vehicle_price),
           score_term(req.contract.term_months),
           score_company_age(cust.company_age_years),
           score_crif(cust.crif_score),
           score_debt_ratio(cust.total_debt_service, cust.annual_revenue),
           score_b2b_dscr(dscr_output.dscr_value),
           score_company_type(cust.legal_form, cust.zefix_status),
           score_vehicle_price_tier(req.vehicle.vehicle_price),
           score_industry_risk(cust.industry_risk),
           score_dealer_risk(req.dealer.dealer_default_rate,
                             req.dealer.dealer_active_months) >>

_score_b2b(req, dscr_output) ==
    LET cust == req.customer
        new_annual_ds == req.contract.monthly_payment * 12
        total_annual_ds == Or0(cust.total_debt_service) + new_annual_ds
    IN  << score_ltv(req.contract.financed_amount, req.vehicle.vehicle_price),
           score_term(req.contract.term_months),
           score_company_age(cust.company_age_years),
           score_crif(cust.crif_score),
           score_debt_ratio(Some(total_annual_ds), cust.annual_revenue),
           score_b2b_dscr(dscr_output.dscr_value),
           score_company_type(cust.legal_form, cust.zefix_status),
           score_vehicle_price_tier(req.vehicle.vehicle_price),
           score_industry_risk(cust.industry_risk),
           score_dealer_risk(req.dealer.dealer_default_rate,
                             req.dealer.dealer_active_months) >>

BusinessRuleOverride(rule_code, rule_description, triggered_value) ==
    [rule_code |-> rule_code, rule_description |-> rule_description,
     triggered_value |-> triggered_value]

\* a one-element list when the rule's condition holds, else the empty list
When(cond, override) == IF cond THEN <<override>> ELSE <<>>

\* faulty variant: returns at the first rule that fires
_check_business_rules_first_only(req, dscr_output, now) ==
    LET cust == req.customer
        contract == req.contract
        price == req.vehicle.vehicle_price
        isB2C == cust.party_type = "B2C"
        isB2B == cust.party_type = "B2B"
        days4 == 4 * (now - cust.date_of_birth[1])
        \* ltv = financed / price * 100 if price > 0 else 0, in tenths for display
        ltvOver120 == price > 0 /\ contract.financed_amount * 100 > 120 * price
        zefix == IF cust.zefix_status = None THEN "None" ELSE cust.zefix_status[1]
        all ==
            When(isB2C /\ cust.date_of_birth # None /\ days4 < 1461 * 18,
                 BusinessRuleOverride("BR-01", "Applicant is under 18",
                     "Age: " \o Fmt1(RoundHalfEven(days4 * 10, 1461))))
            \o When(ltvOver120,
                 BusinessRuleOverride("BR-02", "LTV exceeds 120% - extreme over-financing",
                     "LTV: " \o Fmt1(RoundHalfEven(contract.financed_amount * 1000, price))
                         \o "%"))
            \o When(dscr_output.dscr_value # None /\ dscr_output.dscr_value[1] < 0,
                 BusinessRuleOverride("BR-03", "Negative DSCR - expenses exceed income",
                     "DSCR: " \o Fmt2(dscr_output.dscr_value[1])))
            \o When(isB2C /\ cust.zek_has_entries = Some(TRUE)
                          /\ Or0(cust.zek_entry_count) >= 3,
                 BusinessRuleOverride("BR-04", "3+ negative ZEK entries",
                     "ZEK entries: " \o ToString(Or0(cust.zek_entry_count))))
            \o When(cust.crif_score # None /\ cust.crif_score[1] < 150,
                 BusinessRuleOverride("BR-05", "CRIF score critically low (<150)",
                     "CRIF: " \o ToString(cust.crif_score[1])))
            \o When(isB2C /\ ~dscr_output.is_valid
                          /\ cust.monthly_net_income \in {None, Some(0)},
                 BusinessRuleOverride("BR-06", "No income data provided for B2C application",
                     "Net income: None/0"))
            \o When(isB2B /\ zefix \in {"DISSOLVED", "SUSPENDED"},
                 BusinessRuleOverride("BR-B01",
                     "Company is dissolved or suspended in Zefix register",
                     "ZefixStatus: " \o zefix))
            \o When(isB2B /\ zefix = "NOT_FOUND",
                 BusinessRuleOverride("BR-B02",
                     "Company not found in Zefix commercial register",
                     "ZefixStatus: NOT_FOUND"))
            \o When(isB2B /\ cust.company_age_years # None /\ cust.company_age_years[1] < 2,
                 BusinessRuleOverride("BR-B03",
                     "Company less than 2 years old - insufficient track record",
                     "CompanyAge: " \o ToString(Or0(cust.company_age_years)) \o "y"))
            \o When(isB2B /\ ~dscr_output.is_valid
                          /\ (cust.annual_ebitda = None \/ cust.annual_ebitda[1] <= 0),
                 BusinessRuleOverride("BR-B04",
                     "No EBITDA data provided for B2B application - cannot assess coverage",
                     "annual_ebitda: None/0"))
            \o When(req.dealer.dealer_default_rate # None
                          /\ req.dealer.dealer_default_rate[1] > 2000,
                 BusinessRuleOverride("BR-07",
                     "Dealer default rate exceeds 20% watchlist threshold",
                     "Dealer DR: " \o Fmt1(RoundHalfEven(Or0(req.dealer.dealer_default_rate), 10))
                         \o "%"))
            \o When(contract.term_months > 72,
                 BusinessRuleOverride("BR-08", "Contract term exceeds 72-month maximum",
                     "Term: " \o ToString(contract.term_months) \o "m"))
    IN  IF all = <<>> THEN <<>> ELSE <<Head(all)>>

_check_business_rules(req, dscr_output, now) ==
    LET cust == req.customer
        contract == req.contract
        price == req.vehicle.vehicle_price
        isB2C == cust.party_type = "B2C"
        isB2B == cust.party_type = "B2B"
        days4 == 4 * (now - cust.date_of_birth[1])
        \* ltv = financed / price * 100 if price > 0 else 0, in tenths for display
        ltvOver120 == price > 0 /\ contract.financed_amount * 100 > 120 * price
        zefix == IF cust.zefix_status = None THEN "None" ELSE cust.zefix_status[1]
    IN  When(isB2C /\ cust.date_of_birth # None /\ days4 < 1461 * 18,
             BusinessRuleOverride("BR-01", "Applicant is under 18",
                 "Age: " \o Fmt1(RoundHalfEven(days4 * 10, 1461))))
        \o When(ltvOver120,
             BusinessRuleOverride("BR-02", "LTV exceeds 120% - extreme over-financing",
                 "LTV: " \o Fmt1(RoundHalfEven(contract.financed_amount * 1000, price))
                     \o "%"))
        \o When(dscr_output.dscr_value # None /\ dscr_output.dscr_value[1] < 0,
             BusinessRuleOverride("BR-03", "Negative DSCR - expenses exceed income",
                 "DSCR: " \o Fmt2(dscr_output.dscr_value[1])))
        \o When(isB2C /\ cust.zek_has_entries = Some(TRUE)
                      /\ Or0(cust.zek_entry_count) >= 3,
             BusinessRuleOverride("BR-04", "3+ negative ZEK entries",
                 "ZEK entries: " \o ToString(Or0(cust.zek_entry_count))))
        \o When(cust.crif_score # None /\ cust.crif_score[1] < 150,
             BusinessRuleOverride("BR-05", "CRIF score critically low (<150)",
                 "CRIF: " \o ToString(cust.crif_score[1])))
        \o When(isB2C /\ ~dscr_output.is_valid
                      /\ cust.monthly_net_income \in {None, Some(0)},
             BusinessRuleOverride("BR-06", "No income data provided for B2C application",
                 "Net income: None/0"))
        \o When(isB2B /\ zefix \in {"DISSOLVED", "SUSPENDED"},
             BusinessRuleOverride("BR-B01",
                 "Company is dissolved or suspended in Zefix register",
                 "ZefixStatus: " \o zefix))
        \o When(isB2B /\ zefix = "NOT_FOUND",
             BusinessRuleOverride("BR-B02",
                 "Company not found in Zefix commercial register",
                 "ZefixStatus: NOT_FOUND"))
        \o When(isB2B /\ cust.company_age_years # None /\ cust.company_age_years[1] < 2,
             BusinessRuleOverride("BR-B03",
                 "Company less than 2 years old - insufficient track record",
                 "CompanyAge: " \o ToString(Or0(cust.company_age_years)) \o "y"))
        \o When(isB2B /\ ~dscr_output.is_valid
                      /\ (cust.annual_ebitda = None \/ cust.annual_ebitda[1] <= 0),
             BusinessRuleOverride("BR-B04",
                 "No EBITDA data provided for B2B application - cannot assess coverage",
                 "annual_ebitda: None/0"))
        \o When(req.dealer.dealer_default_rate # None
                      /\ req.dealer.dealer_default_rate[1] > 2000,
             BusinessRuleOverride("BR-07",
                 "Dealer default rate exceeds 20% watchlist threshold",
                 "Dealer DR: " \o Fmt1(RoundHalfEven(Or0(req.dealer.dealer_default_rate), 10))
                     \o "%"))
        \o When(contract.term_months > 72,
             BusinessRuleOverride("BR-08", "Contract term exceeds 72-month maximum",
                 "Term: " \o ToString(contract.term_months) \o "m"))

\* faulty variant: the weight is multiplied into the reported score
FactorScoreWeighted(result, weight) ==
    [factor_name |-> result.factor_name, raw_value |-> result.raw_value,
     bin_label |-> result.bin_label, weight |-> weight,
     raw_score |-> result.raw_score, weighted_score |-> result.raw_score * weight]

FactorScore(result, weight) ==
    [factor_name |-> result.factor_name, raw_value |-> result.raw_value,
     bin_label |-> result.bin_label, weight |-> weight,
     raw_score |-> result.raw_score, weighted_score |-> result.raw_score]

RECURSIVE SumRawScores(_)
SumRawScores(results) ==
    IF results = <<>> THEN 0
    ELSE results[1].raw_score + SumRawScores(Tail(results))

\* faulty variant: a score on a threshold falls into the worse tier
TierForScoreStrict(total_score) ==
    LET reached == {i \in 1..Len(TIER_THRESHOLDS) : total_score > TIER_THRESHOLDS[i][1]}
    IN  IF reached = {} THEN "RED"
        ELSE TIER_THRESHOLDS[CHOOSE i \in reached : \A j \in reached : i <= j][2]

\* for threshold, t in TIER_THRESHOLDS: first threshold reached wins, else RED
TierForScore(total_score) ==
    LET reached == {i \in 1..Len(TIER_THRESHOLDS) : total_score >= TIER_THRESHOLDS[i][1]}
    IN  IF reached = {} THEN "RED"
        ELSE TIER_THRESHOLDS[CHOOSE i \in reached : \A j \in reached : i <= j][2]

\* faulty variant: the overrides are applied first and the ladder then
\* overwrites the forced tier
FinalTierLadderLast(total_score, overrides) == TierForScore(total_score)

\* the tier after the business rule overrides
FinalTier(total_score, overrides) ==
    IF overrides # <<>> THEN "RED" ELSE TierForScore(total_score)

\* faulty variant: the PD is looked up by the score's tier, before the overrides
_estimate_pd_by_score(tier, score) == pd_map[TierForScore(score)]

\* faulty variant: the PD is read from the live tier table at the end of the call
_estimate_pd_from_table(tier, score) ==
    calibration.scoring_tier_thresholds["1.2.0"][tier].estimated_pd

_estimate_pd(tier, score) == pd_map[tier]

\* clk holds the clock readings of one call: date.today() in score_age,
\* datetime.now() in BR-01 and in the legacy scorecard, and evaluated_at.
\* Steps 1-5 of evaluate: DSCR, factor scores, composite score, tier, overrides.
ScoreAndTier(req, clk) ==
    LET is_b2b == req.customer.party_type = "B2B"
        dscr_output == calculate_dscr(req.customer, req.contract)
        raw_results == IF is_b2b THEN _score_b2b(req, dscr_output)
                       ELSE _score_b2c(req, dscr_output, clk.age)
        factor_weight_map == IF is_b2b THEN B2B_FACTOR_WEIGHTS ELSE FACTOR_WEIGHTS
        total_score == SumRawScores(raw_results)
        overrides == _check_business_rules(req, dscr_output, clk.rules)
    IN  [is_b2b |-> is_b2b,
         dscr_output |-> dscr_output,
         factor_scores |->
            [i \in 1..Len(raw_results) |->
                FactorScore(raw_results[i], factor_weight_map[raw_results[i].factor_name])],
         total_score |-> total_score,
         overrides |-> overrides,
         tier |-> FinalTier(total_score, overrides)]

\* faulty variant: the legacy scorecard is skipped for every party type
AssembleResponseWithoutLegacy(req, assessment_id, clk, scored) ==
    [kind |-> "response",
     request_id |-> req.request_id,
     assessment_id |-> assessment_id,
     model_version |-> IF req.model_version = None THEN "1.2" ELSE req.model_version[1],
     total_score |-> scored.total_score,
     tier |-> scored.tier,
     decision |-> TIER_TO_DECISION[scored.tier],
     probability_of_default |-> _estimate_pd(scored.tier, scored.total_score),
     factor_scores |-> scored.factor_scores,
     dscr |-> scored.dscr_output,
     business_rule_overrides |-> scored.overrides,
     evaluated_at |-> clk.end,
     processing_time_ms |-> (clk.end - clk.age) * 86400000,
     legacy_score |-> None,
     legacy_band |-> None]

\* The rest of evaluate: decision, legacy scorecard, PD estimate, the response.
AssembleResponse(req, assessment_id, clk, scored) ==
    LET decision == TIER_TO_DECISION[scored.tier]
        legacy == IF scored.is_b2b THEN [kind |-> "skipped"]
                  ELSE compute_legacy_score(req, scored.dscr_output, clk.legacy)
    IN  IF legacy.kind = "raised" THEN legacy
        ELSE [kind |-> "response",
              request_id |-> req.request_id,
              assessment_id |-> assessment_id,
              model_version |-> IF req.model_version = None THEN "1.2"
                                ELSE req.model_version[1],
              total_score |-> scored.total_score,
              tier |-> scored.tier,
              decision |-> decision,
              probability_of_default |-> _estimate_pd(scored.tier, scored.total_score),
              factor_scores |-> scored.factor_scores,
              dscr |-> scored.dscr_output,
              business_rule_overrides |-> scored.overrides,
              evaluated_at |-> clk.end,
              processing_time_ms |-> (clk.end - clk.age) * 86400000,
              legacy_score |-> IF scored.is_b2b THEN None ELSE Some(legacy.score),
              legacy_band |-> IF scored.is_b2b THEN None ELSE Some(legacy.band)]

evaluate(req, assessment_id, clk) ==
    AssembleResponse(req, assessment_id, clk, ScoreAndTier(req, clk))

-----------------------------------------------------------------------------
(* Requests: schema-valid payloads (schemas/risk_request.py) *)

CustomerData ==
    [customer_id |-> "CUST-001", date_of_birth |-> None, party_type |-> "B2C",
     permit_type |-> None, monthly_net_income |-> None,
     monthly_existing_obligations |-> None, monthly_rent |-> None,
     monthly_insurance |-> None, monthly_alimony |-> None,
     annual_revenue |-> None, annual_ebitda |-> None, total_debt_service |-> None,
     company_age_years |-> None, zefix_status |-> None, legal_form |-> None,
     industry_risk |-> None, crif_score |-> None, intrum_score |-> None,
     zek_has_entries |-> None, zek_entry_count |-> None]

RiskEvaluationRequest(request_id, customer, vehicle_price, financed_amount, term_months, monthly_payment, default_rate, active_months) ==
    [request_id |-> request_id,
     customer |-> customer,
     vehicle |-> [vehicle_price |-> vehicle_price],
     contract |-> [contract_id |-> "CTR-001", financed_amount |-> financed_amount,
                   term_months |-> term_months, monthly_payment |-> monthly_payment],
     dealer |-> [dealer_id |-> "DLR-001", dealer_default_rate |-> default_rate,
                 dealer_active_months |-> active_months],
     model_version |-> None]

\* the constraints the schema puts on the fields the engine reads
SchemaValid(req) ==
    /\ req.customer.party_type \in {"B2B", "B2C"}
    /\ req.vehicle.vehicle_price > 0
    /\ req.contract.financed_amount > 0
    /\ req.contract.term_months > 0 /\ req.contract.term_months <= 84
    /\ req.contract.monthly_payment > 0
    /\ \A f \in {"monthly_net_income", "monthly_existing_obligations", "monthly_rent",
                 "monthly_insurance", "monthly_alimony", "annual_revenue",
                 "annual_ebitda", "total_debt_service", "company_age_years",
                 "intrum_score", "zek_entry_count"} :
            req.customer[f] = None \/ req.customer[f][1] >= 0
    /\ req.customer.crif_score = None
         \/ (req.customer.crif_score[1] >= 0 /\ req.customer.crif_score[1] <= 1000)
    /\ req.customer.intrum_score = None \/ req.customer.intrum_score[1] <= 10
    /\ req.dealer.dealer_default_rate = None
         \/ (req.dealer.dealer_default_rate[1] >= 0
               /\ req.dealer.dealer_default_rate[1] <= 10000)
    /\ req.dealer.dealer_active_months = None \/ req.dealer.dealer_active_months[1] >= 0

\* B2C applications: LTV 70% / 98% / 130%, born 18 years before day 1, 20 and
\* 46.5 years before day 0, or with no date of birth
B2CRequests ==
    { RiskEvaluationRequest("REQ-1",
          [CustomerData EXCEPT !.date_of_birth = dob, !.permit_type = permit,
                               !.monthly_net_income = income, !.crif_score = crif,
                               !.intrum_score = intrum,
                               !.zek_has_entries = Some(FALSE),
                               !.zek_entry_count = Some(0)],
          50000, financed, term, 900, Some(200), Some(36)) :
        dob \in {None, Some(-6574), Some(-7305), Some(-17000)},
        permit \in {None, Some("B"), Some("L")},
        income \in {None, Some(1000), Some(16000)},
        crif \in {None, Some(720)},
        intrum \in {None, Some(5)},
        financed \in {35000, 49000, 65000},
        term \in {48, 60} }

B2BRequests ==
    { RiskEvaluationRequest("REQ-1",
          [CustomerData EXCEPT !.party_type = "B2B", !.company_age_years = age,
                               !.annual_ebitda = ebitda, !.annual_revenue = revenue,
                               !.total_debt_service = Some(100000),
                               !.zefix_status = zefix, !.legal_form = Some("AG"),
                               !.industry_risk = industry, !.crif_score = Some(720)],
          50000, financed, 48, 900, Some(200), Some(36)) :
        age \in {None, Some(1), Some(25)},
        ebitda \in {None, Some(500000)},
        revenue \in {None, Some(1000000)},
        zefix \in {None, Some("ACTIVE"), Some("DISSOLVED")},
        industry \in {None, Some("Low")},
        financed \in {35000, 65000} }

EngineRequests == B2CRequests \cup B2BRequests

-----------------------------------------------------------------------------
(* The engine called directly: evaluate(request) at some time of some day *)

NoResponse == [kind |-> "none"]
Min(a, b) == IF a <= b THEN a ELSE b

\* the readings of one call: midnight may pass once, between any two of them
ClockReadings(t0) ==
    { [age |-> t0, rules |-> t0 + a, legacy |-> t0 + b, end |-> t0 + c] :
        <<a, b, c>> \in {x \in (0..1) \X (0..1) \X (0..1) :
                           x[1] <= x[2] /\ x[2] <= x[3] /\ t0 + x[3] <= MaxDay} }

\* the readings of a call that is over within the day
SteadyClock(t0) == [age |-> t0, rules |-> t0, legacy |-> t0, end |-> t0]

IdleApi ==
    /\ risk_assessment = {}
    /\ calls = <<>>
    /\ kafka_enabled = FALSE
    /\ _producer = None
    /\ producers = <<>>
    /\ kafka_topic = <<>>

IdleAdmin ==
    /\ calibration = <<>>
    /\ publish_txs = <<>>
    /\ evaluating = [pc |-> "idle"]
    /\ audit_log = <<>>

InitEngine ==
    /\ request \in EngineRequests
    /\ today = 0
    /\ next_uuid = 0
    /\ response = NoResponse
    /\ prev_response = NoResponse
    /\ IdleApi
    /\ IdleAdmin

Evaluate ==
    /\ next_uuid < MaxEvals
    /\ \E clk \in ClockReadings(today) :
        /\ response' = evaluate(request, next_uuid + 1, clk)
        /\ today' = clk.end
    /\ prev_response' = response
    /\ next_uuid' = next_uuid + 1
    /\ UNCHANGED <<request, apiVars, adminVars>>

Tick ==
    /\ today < MaxDay
    /\ today' = today + 1
    /\ UNCHANGED <<request, next_uuid, response, prev_response, apiVars, adminVars>>

NextEngine == Evaluate \/ Tick

SpecEngine == InitEngine /\ [][NextEngine]_vars

-----------------------------------------------------------------------------
(* POST /v1/risk/evaluate: evaluate_risk and publish_risk_event, one step per
   stretch of code between two awaits *)

\* model_dump(mode="json") writes a datetime as its ISO string, and
\* RiskEvaluationResponse(**payload) parses the string back
isoformat(day) == <<"iso", day>>
fromisoformat(text) == text[2]

ResponseDump(resp) == [resp EXCEPT !.evaluated_at = isoformat(resp.evaluated_at)]
ResponseParse(payload) ==
    [payload EXCEPT !.evaluated_at = fromisoformat(payload.evaluated_at)]

RequestDump(req) ==
    LET dob == req.customer.date_of_birth
    IN  [req EXCEPT !.customer.date_of_birth =
                        IF dob = None THEN None ELSE Some(isoformat(dob[1]))]

\* the RiskAssessment row built from a request and its response
RiskAssessment(req, resp) ==
    [assessment_id |-> resp.assessment_id,
     request_id |-> req.request_id,
     contract_id |-> req.contract.contract_id,
     customer_id |-> req.customer.customer_id,
     model_version |-> resp.model_version,
     total_score |-> resp.total_score,
     tier |-> resp.tier,
     decision |-> resp.decision,
     legacy_score |-> resp.legacy_score,
     legacy_band |-> resp.legacy_band,
     request_payload |-> RequestDump(req),
     response_payload |-> ResponseDump(resp)]

\* faulty variant: only the lookup by primary key None is made, which finds nothing
GetByPrimaryKeyNone(rows, request_id) == None

\* select(RiskAssessment).where(request_id == ...) ... scalar_one_or_none()
SelectByRequestId(rows, request_id) ==
    LET found == {row \in rows : row.request_id = request_id}
    IN  IF found = {} THEN None ELSE Some(CHOOSE row \in found : TRUE)

Ok200(resp) == [status |-> 200, body |-> resp]
Http500(detail) == [status |-> 500, body |-> [kind |-> "error", detail |-> detail]]

\* the event of publish_risk_event
RiskEvent(resp) ==
    [key |-> resp.request_id,
     event_type |-> "RISK_ASSESSMENT_COMPLETED",
     assessment_id |-> resp.assessment_id,
     request_id |-> resp.request_id,
     tier |-> resp.tier,
     decision |-> resp.decision,
     total_score |-> resp.total_score,
     model_version |-> resp.model_version,
     evaluated_at |-> isoformat(resp.evaluated_at)]

\* the locals of one evaluate_risk call
NewCall(req) ==
    [request |-> req, pc |-> "select", existing |-> None, response |-> None,
     assessment |-> None, producer |-> None, sent_on |-> "none",
     publish |-> "none", result |-> None]

\* faulty variant: the exception leaves publish_risk_event and fails the request
OnPublishFailureRaise(call) ==
    [call EXCEPT !.pc = "done", !.publish = "failed",
                 !.result = Some([status |-> 500,
                                  body |-> [kind |-> "error", detail |-> "KafkaError"]])]

\* except Exception in publish_risk_event: log, do not fail the request
OnPublishFailure(call) == [call EXCEPT !.pc = "return", !.publish = "failed"]

\* applications sent to the endpoint: an adult and a customer without date of
\* birth under one idempotency key, a customer who turns 18 on day 1 under another
ApiRequest(request_id, date_of_birth) ==
    RiskEvaluationRequest(request_id,
        [CustomerData EXCEPT !.date_of_birth = date_of_birth,
                             !.monthly_net_income = Some(16000),
                             !.crif_score = Some(720),
                             !.intrum_score = Some(5),
                             !.zek_has_entries = Some(FALSE),
                             !.zek_entry_count = Some(0)],
        50000, 35000, 48, 900, Some(200), Some(36))

ApiRequests ==
    { ApiRequest("REQ-1", Some(-17000)), ApiRequest("REQ-1", None),
      ApiRequest("REQ-2", Some(-6574)) }

NoRequest == [kind |-> "none"]

Init ==
    /\ request = NoRequest
    /\ today = 0
    /\ next_uuid = 0
    /\ response = NoResponse
    /\ prev_response = NoResponse
    /\ risk_assessment = {}
    /\ calls = <<>>
    /\ kafka_enabled \in BOOLEAN
    /\ _producer = None
    /\ producers = <<>>
    /\ kafka_topic = <<>>
    /\ IdleAdmin

\* a request arrives and the handler runs up to its first await
Receive ==
    /\ Len(calls) < MaxCalls
    /\ \E req \in ApiRequests : calls' = Append(calls, NewCall(req))
    /\ UNCHANGED <<engineVars, risk_assessment,
                   kafka_enabled, _producer, producers, kafka_topic, adminVars>>

\* the idempotency check: a stored assessment is returned as it was stored
Select(c) ==
    /\ calls[c].pc = "select"
    /\ LET existing == SelectByRequestId(risk_assessment, calls[c].request.request_id)
       IN  calls' = [calls EXCEPT ![c] =
                IF existing # None
                THEN [@ EXCEPT !.existing = existing, !.pc = "done",
                        !.result = Some(Ok200(ResponseParse(existing[1].response_payload)))]
                ELSE [@ EXCEPT !.pc = "score"]]
    /\ UNCHANGED <<request, today, next_uuid, response, prev_response,
                   risk_assessment, kafka_enabled, _producer, producers,
                   kafka_topic, adminVars>>

\* response = evaluate(request), today or a day after the previous step, an
\* exception becoming HTTP 500
Score(c) ==
    /\ calls[c].pc = "score"
    /\ \E now \in today..Min(today + 1, MaxDay) :
        LET clk == SteadyClock(now)
            r == evaluate(calls[c].request, next_uuid + 1, clk)
        IN  /\ today' = clk.end
            /\ calls' = [calls EXCEPT ![c] =
                  IF r.kind = "raised"
                  THEN [@ EXCEPT !.pc = "done", !.result = Some(Http500(r.error))]
                  ELSE [@ EXCEPT !.pc = "persist", !.response = Some(r)]]
    /\ next_uuid' = next_uuid + 1
    /\ UNCHANGED <<request, response, prev_response, risk_assessment, kafka_enabled,
                   _producer, producers, kafka_topic, adminVars>>

\* faulty variant: the event is published before the row is added and committed
PersistAfterPublish(c) ==
    /\ calls[c].pc = "persist"
    /\ calls' = [calls EXCEPT ![c] = [@ EXCEPT !.pc = "publish"]]
    /\ UNCHANGED <<request, today, next_uuid, response, prev_response, risk_assessment,
                   kafka_enabled, _producer, producers, kafka_topic, adminVars>>

\* db.add(assessment); await db.commit(): request_id is unique
Persist(c) ==
    /\ calls[c].pc = "persist"
    /\ LET assessment == RiskAssessment(calls[c].request, calls[c].response[1])
       IN  IF \E row \in risk_assessment : row.request_id = assessment.request_id
           THEN /\ calls' = [calls EXCEPT ![c] =
                      [@ EXCEPT !.pc = "done", !.result = Some(Http500("IntegrityError"))]]
                /\ UNCHANGED risk_assessment
           ELSE /\ calls' = [calls EXCEPT ![c] =
                      [@ EXCEPT !.pc = "publish", !.assessment = Some(assessment)]]
                /\ risk_assessment' = risk_assessment \cup {assessment}
    /\ UNCHANGED <<request, today, next_uuid, response, prev_response,
                   kafka_enabled, _producer, producers, kafka_topic, adminVars>>

\* publish_risk_event with Kafka disabled returns at once
PublishDisabled(c) ==
    /\ calls[c].pc = "publish"
    /\ ~kafka_enabled
    /\ calls' = [calls EXCEPT ![c] = [@ EXCEPT !.pc = "return", !.publish = "skipped"]]
    /\ UNCHANGED <<engineVars, risk_assessment, kafka_enabled, _producer,
                   producers, kafka_topic, adminVars>>

\* _get_producer with no cached producer: the new object is cached, then started
CreateProducer(c) ==
    /\ calls[c].pc = "publish"
    /\ kafka_enabled /\ _producer = None
    /\ producers' = Append(producers, "created")
    /\ _producer' = Some(Len(producers) + 1)
    /\ calls' = [calls EXCEPT ![c] =
          [@ EXCEPT !.pc = "start", !.producer = Some(Len(producers) + 1)]]
    /\ UNCHANGED <<engineVars, risk_assessment, kafka_enabled,
                   kafka_topic, adminVars>>

\* AIOKafkaProducer(...) raises: nothing is cached
CreateProducerFails(c) ==
    /\ calls[c].pc = "publish"
    /\ kafka_enabled /\ _producer = None
    /\ calls' = [calls EXCEPT ![c] = OnPublishFailure(@)]
    /\ UNCHANGED <<engineVars, risk_assessment, kafka_enabled, _producer,
                   producers, kafka_topic, adminVars>>

\* _get_producer with a cached producer returns it without awaiting, and the
\* event goes to send_and_wait
UseCachedProducer(c) ==
    /\ calls[c].pc = "publish"
    /\ kafka_enabled /\ _producer # None
    /\ calls' = [calls EXCEPT ![c] =
          [@ EXCEPT !.pc = "send", !.producer = _producer,
                    !.sent_on = producers[_producer[1]]]]
    /\ UNCHANGED <<engineVars, risk_assessment, kafka_enabled, _producer,
                   producers, kafka_topic, adminVars>>

\* await _producer.start() returns
StartOk(c) ==
    /\ calls[c].pc = "start"
    /\ producers' = [producers EXCEPT ![calls[c].producer[1]] = "started"]
    /\ calls' = [calls EXCEPT ![c] = [@ EXCEPT !.pc = "send", !.sent_on = "started"]]
    /\ UNCHANGED <<engineVars, risk_assessment, kafka_enabled, _producer,
                   kafka_topic, adminVars>>

\* await _producer.start() raises: _producer keeps the object
StartFails(c) ==
    /\ calls[c].pc = "start"
    /\ producers' = [producers EXCEPT ![calls[c].producer[1]] = "failed"]
    /\ calls' = [calls EXCEPT ![c] = OnPublishFailure(@)]
    /\ UNCHANGED <<engineVars, risk_assessment, kafka_enabled, _producer,
                   kafka_topic, adminVars>>

\* await producer.send_and_wait(...) returns: the broker has the event
SendOk(c) ==
    /\ calls[c].pc = "send"
    /\ producers[calls[c].producer[1]] = "started"
    /\ kafka_topic' = Append(kafka_topic, RiskEvent(calls[c].response[1]))
    /\ calls' = [calls EXCEPT ![c] = [@ EXCEPT !.pc = "return", !.publish = "sent"]]
    /\ UNCHANGED <<engineVars, risk_assessment, kafka_enabled, _producer,
                   producers, adminVars>>

\* await producer.send_and_wait(...) raises
SendFails(c) ==
    /\ calls[c].pc = "send"
    /\ calls' = [calls EXCEPT ![c] = OnPublishFailure(@)]
    /\ UNCHANGED <<engineVars, risk_assessment, kafka_enabled, _producer,
                   producers, kafka_topic, adminVars>>

\* return response
Return(c) ==
    /\ calls[c].pc = "return"
    /\ calls' = [calls EXCEPT ![c] =
          [@ EXCEPT !.pc = "done", !.result = Some(Ok200(calls[c].response[1]))]]
    /\ UNCHANGED <<engineVars, risk_assessment, kafka_enabled, _producer,
                   producers, kafka_topic, adminVars>>

Next ==
    \/ Receive
    \/ \E c \in DOMAIN calls : Select(c)
    \/ \E c \in DOMAIN calls : Score(c)
    \/ \E c \in DOMAIN calls : Persist(c)
    \/ \E c \in DOMAIN calls : PublishDisabled(c)
    \/ \E c \in DOMAIN calls : CreateProducer(c)
    \/ \E c \in DOMAIN calls : CreateProducerFails(c)
    \/ \E c \in DOMAIN calls : UseCachedProducer(c)
    \/ \E c \in DOMAIN calls : StartOk(c)
    \/ \E c \in DOMAIN calls : StartFails(c)
    \/ \E c \in DOMAIN calls : SendOk(c)
    \/ \E c \in DOMAIN calls : SendFails(c)
    \/ \E c \in DOMAIN calls : Return(c)

Spec == Init /\ [][Next]_vars

-----------------------------------------------------------------------------
(* The admin API editing the calibration tables while evaluate() runs *)

\* versions with rows in the tables: the seeded one and a draft copy of it
StoredVersions == {"1.2.0", "1.3.0"}
\* version ids an admin request may name, one of them unknown
AdminVersionIds == StoredVersions \cup {"9.9.9"}

SeedTiers ==
    [BRIGHT_GREEN |-> [min_score |-> Some(25), decision |-> "AUTO_APPROVE",
                       estimated_pd |-> 15],
     GREEN |-> [min_score |-> Some(10), decision |-> "APPROVE_STANDARD",
                estimated_pd |-> 35],
     YELLOW |-> [min_score |-> Some(0), decision |-> "MANUAL_REVIEW",
                 estimated_pd |-> 70],
     RED |-> [min_score |-> None, decision |-> "DECLINE", estimated_pd |-> 150]]

SeedRules ==
    [code \in {"BR-01", "BR-02", "BR-03", "BR-04", "BR-05", "BR-06", "BR-07", "BR-08"}
        |-> [enabled |-> TRUE]]

SeedLtvBins ==
    ("<75%" :> 8) @@ ("75-85%" :> 4) @@ ("85-95%" :> 0) @@ (">95%" :> -8)
    @@ ("MISSING" :> -5)

SeedTables ==
    [model_version |->
        [v \in StoredVersions |-> IF v = "1.2.0" THEN "PUBLISHED" ELSE "DRAFT"],
     scoring_tier_thresholds |-> [v \in StoredVersions |-> SeedTiers],
     business_rules |-> [v \in StoredVersions |-> SeedRules],
     scoring_factor_bins |-> [v \in StoredVersions |-> SeedLtvBins]]

AuditEntry(version_id, action, table_name, record_id, field_name, new_value) ==
    [version_id |-> version_id, action |-> action, table_name |-> table_name,
     record_id |-> record_id, field_name |-> field_name, new_value |-> new_value]

\* applications scored while the tables change: LTV 70% / 98% / 130%
AdminRequests ==
    { req \in B2CRequests :
        /\ req.customer.date_of_birth = Some(-17000)
        /\ req.customer.monthly_net_income = Some(16000)
        /\ req.customer.crif_score = Some(720)
        /\ req.customer.intrum_score = Some(5)
        /\ req.customer.permit_type = Some("L")
        /\ req.contract.term_months = 48 }

InitAdmin ==
    /\ request \in AdminRequests
    /\ today = 0
    /\ next_uuid = 0
    /\ response = NoResponse
    /\ prev_response = NoResponse
    /\ IdleApi
    /\ calibration = SeedTables
    /\ publish_txs = <<>>
    /\ evaluating = [pc |-> "idle"]
    /\ audit_log = <<>>

\* PUT /factors/{version_id}/{factor_name}/bins/{bin_id} with a new raw_score
update_factor_bin(version_id, bin_label, raw_score) ==
    /\ Len(audit_log) < MaxAdminOps
    /\ IF version_id \notin StoredVersions
       THEN UNCHANGED <<calibration, audit_log>>
       ELSE /\ calibration' =
                [calibration EXCEPT !.scoring_factor_bins[version_id][bin_label] = raw_score]
            /\ audit_log' = Append(audit_log,
                  AuditEntry(version_id, "UPDATED", "scoring_factor_bins", bin_label,
                             "raw_score", ToString(raw_score)))
    /\ UNCHANGED <<engineVars, apiVars, publish_txs, evaluating>>

\* PUT /tiers/{version_id}/{tier_id} with a new min_score and estimated_pd
update_tier(version_id, tier_name, min_score, estimated_pd) ==
    /\ Len(audit_log) < MaxAdminOps
    /\ calibration' =
          IF version_id \notin StoredVersions THEN calibration
          ELSE [calibration EXCEPT
                  !.scoring_tier_thresholds[version_id][tier_name].min_score = Some(min_score),
                  !.scoring_tier_thresholds[version_id][tier_name].estimated_pd = estimated_pd]
    /\ audit_log' = audit_log \o
          << AuditEntry(version_id, "UPDATED", "scoring_tier_thresholds", tier_name,
                        "min_score", ToString(min_score)),
             AuditEntry(version_id, "UPDATED", "scoring_tier_thresholds", tier_name,
                        "estimated_pd", ToString(estimated_pd)) >>
    /\ UNCHANGED <<engineVars, apiVars, publish_txs, evaluating>>

\* faulty variant: the rule is updated and committed with no audit entry
update_rule_without_audit(version_id, rule_code, enabled) ==
    /\ Len(audit_log) < MaxAdminOps
    /\ version_id \in StoredVersions
    /\ calibration' =
          [calibration EXCEPT !.business_rules[version_id][rule_code].enabled = enabled]
    /\ UNCHANGED <<engineVars, apiVars, publish_txs, evaluating, audit_log>>

\* PUT /rules/{version_id}/{rule_code} switching the rule off
update_rule(version_id, rule_code, enabled) ==
    /\ Len(audit_log) < MaxAdminOps
    /\ calibration' =
          IF version_id \notin StoredVersions THEN calibration
          ELSE [calibration EXCEPT !.business_rules[version_id][rule_code].enabled = enabled]
    /\ audit_log' = Append(audit_log,
          AuditEntry(version_id, "UPDATED", "business_rules", rule_code, "enabled",
                     IF enabled THEN "True" ELSE "False"))
    /\ UNCHANGED <<engineVars, apiVars, publish_txs, evaluating>>

\* POST /publish/{version_id}, first statement: the rows to archive are those
\* PUBLISHED in the statement's snapshot
publish_version_archive(version_id) ==
    /\ Len(audit_log) + Len(publish_txs) < MaxAdminOps
    /\ publish_txs' = Append(publish_txs,
          [version_id |-> version_id,
           archived |-> {v \in StoredVersions :
                           calibration.model_version[v] = "PUBLISHED" /\ v # version_id}])
    /\ UNCHANGED <<engineVars, apiVars, calibration, evaluating, audit_log>>

\* POST /publish/{version_id}, up to the commit: rows archived by a transaction
\* committed in between are left as they are
publish_version_commit(i) ==
    /\ i \in DOMAIN publish_txs
    /\ LET tx == publish_txs[i]
       IN  /\ calibration' = [calibration EXCEPT !.model_version =
                  [v \in StoredVersions |->
                      IF v = tx.version_id THEN "PUBLISHED"
                      ELSE IF v \in tx.archived /\ @[v] = "PUBLISHED" THEN "ARCHIVED"
                      ELSE @[v]]]
           /\ audit_log' = Append(audit_log,
                  AuditEntry(tx.version_id, "PUBLISHED", "model_version",
                             tx.version_id, "", ""))
           /\ publish_txs' = [j \in 1..(Len(publish_txs) - 1) |->
                                 IF j < i THEN publish_txs[j] ELSE publish_txs[j + 1]]
    /\ UNCHANGED <<engineVars, apiVars, evaluating>>

\* evaluate() up to the tier (steps 1 to 5), the tables being what they are
BeginEvaluate ==
    /\ evaluating.pc = "idle"
    /\ evaluating' = [pc |-> "scoring", clk |-> SteadyClock(today),
                      scored |-> ScoreAndTier(request, SteadyClock(today)),
                      tables_begin |-> calibration]
    /\ UNCHANGED <<engineVars, apiVars, calibration, publish_txs, audit_log>>

\* evaluate() from the decision to the returned response
FinishEvaluate ==
    /\ evaluating.pc = "scoring"
    /\ response' = AssembleResponse(request, next_uuid + 1, evaluating.clk,
                                    evaluating.scored)
    /\ next_uuid' = next_uuid + 1
    /\ today' = evaluating.clk.end
    /\ evaluating' = [pc |-> "finished", tables_begin |-> evaluating.tables_begin,
                      tables_end |-> calibration]
    /\ UNCHANGED <<request, prev_response, apiVars, calibration, publish_txs,
                   audit_log>>

NextAdmin ==
    \/ BeginEvaluate
    \/ FinishEvaluate
    \/ \E v \in StoredVersions : update_factor_bin(v, "<75%", 6)
    \/ \E v \in StoredVersions : update_tier(v, "BRIGHT_GREEN", 40, 20)
    \/ \E v \in StoredVersions : update_rule(v, "BR-02", FALSE)
    \/ \E v \in AdminVersionIds : publish_version_archive(v)
    \/ \E i \in DOMAIN publish_txs : publish_version_commit(i)

SpecAdmin == InitAdmin /\ [][NextAdmin]_vars

\* the configuration compiled into the engine
CodeConfig ==
    [tiers |-> [t \in DOMAIN TIER_TO_DECISION |->
                  [min_score |->
                      IF \E i \in DOMAIN TIER_THRESHOLDS : TIER_THRESHOLDS[i][2] = t
                      THEN Some(TIER_THRESHOLDS[CHOOSE i \in DOMAIN TIER_THRESHOLDS :
                                                   TIER_THRESHOLDS[i][2] = t][1])
                      ELSE None,
                   decision |-> TIER_TO_DECISION[t],
                   estimated_pd |-> pd_map[t]]],
     rules |-> {"BR-01", "BR-02", "BR-03", "BR-04", "BR-05", "BR-06", "BR-07",
                "BR-08", "BR-B01", "BR-B02", "BR-B03", "BR-B04"},
     ltv_bins |-> SeedLtvBins]

\* the configuration a version of the tables holds
TableConfig(tables, version_id) ==
    [tiers |-> tables.scoring_tier_thresholds[version_id],
     rules |-> {code \in DOMAIN tables.business_rules[version_id] :
                  tables.business_rules[version_id][code].enabled},
     ltv_bins |-> tables.scoring_factor_bins[version_id]]

LadderTier(config, total_score) ==
    IF total_score >= config.tiers["BRIGHT_GREEN"].min_score[1] THEN "BRIGHT_GREEN"
    ELSE IF total_score >= config.tiers["GREEN"].min_score[1] THEN "GREEN"
    ELSE IF total_score >= config.tiers["YELLOW"].min_score[1] THEN "YELLOW"
    ELSE "RED"

\* every parameter visible in the response is the one of config
ConsistentWith(config, resp) ==
    /\ resp.tier = IF resp.business_rule_overrides # <<>> THEN "RED"
                   ELSE LadderTier(config, resp.total_score)
    /\ resp.decision = config.tiers[resp.tier].decision
    /\ resp.probability_of_default = config.tiers[resp.tier].estimated_pd
    /\ \A i \in DOMAIN resp.business_rule_overrides :
          resp.business_rule_overrides[i].rule_code \in config.rules
    /\ resp.factor_scores[1].raw_score =
          config.ltv_bins[resp.factor_scores[1].bin_label]

-----------------------------------------------------------------------------
(* The functions of the engine applied on their own to arguments of a range *)

Returned(value) == [kind |-> "returned", value |-> value]

\* legacy scores around the five bands
BandCalls == { [fn |-> "legacy_band", score |-> score] : score \in 300..530 }

\* customers of both party types, each with and without the fields of the other
\* type; payments that divide the disposable income evenly and unevenly
DscrCalls ==
    { [fn |-> "calculate_dscr",
       customer |-> [CustomerData EXCEPT !.party_type = party,
                        !.monthly_net_income = income, !.monthly_rent = rent,
                        !.monthly_insurance = insurance, !.monthly_alimony = alimony,
                        !.monthly_existing_obligations = obligations,
                        !.annual_ebitda = ebitda, !.total_debt_service = debt],
       contract |-> [contract_id |-> "CTR-001", financed_amount |-> 35000,
                     term_months |-> 48, monthly_payment |-> payment]] :
        party \in {"B2C", "B2B"},
        income \in {None, Some(0), Some(1000), Some(1488), Some(5000)},
        rent \in {None, Some(1200)},
        insurance \in {None, Some(300)},
        alimony \in {None, Some(250)},
        obligations \in {None, Some(400)},
        ebitda \in {None, Some(0), Some(500000)},
        debt \in {None, Some(0), Some(100000)},
        payment \in {7, 200, 900} }

\* requests on which each rule's condition holds for some and fails for others,
\* also the conditions of the rules of the other party type; day 0 is 16.4 or
\* 46.5 years after the date of birth
RuleCalls ==
    { [fn |-> "_check_business_rules",
       request |-> RiskEvaluationRequest("REQ-1",
          [CustomerData EXCEPT !.party_type = party, !.date_of_birth = dob,
                               !.monthly_net_income = income,
                               !.zek_has_entries = zek[1], !.zek_entry_count = zek[2],
                               !.crif_score = crif, !.zefix_status = zefix,
                               !.company_age_years = age, !.annual_ebitda = ebitda],
          50000, financed, term, 900, rate, Some(36))] :
        party \in {"B2C", "B2B"},
        dob \in {None, Some(-6000), Some(-17000)},
        income \in {None, Some(0), Some(1000), Some(16000)},
        zek \in {<<Some(TRUE), Some(3)>>, <<Some(TRUE), Some(2)>>, <<Some(FALSE), Some(3)>>},
        crif \in {None, Some(100), Some(720)},
        zefix \in {Some("ACTIVE"), Some("DISSOLVED"), Some("NOT_FOUND")},
        age \in {Some(1), Some(25)},
        ebitda \in {None, Some(500000)},
        financed \in {35000, 65000},
        term \in {48, 84},
        rate \in {Some(200), Some(2500)} }

\* LTVs from 30% to 200% with every bin edge, and prices that are not positive
LtvCalls ==
    { [fn |-> "score_ltv", financed_amount |-> financed, vehicle_price |-> price] :
        financed \in 60..200, price \in {-100, 0, 100, 200} }

\* dates of birth 6000 to 21000 days (16.4 to 57.5 years) before day 0, in
\* steps of 50 days, scored on day 0 and on day 1
AgeCalls ==
    { [fn |-> "score_age", date_of_birth |-> -days, reference_date |-> ref] :
        days \in {d \in 6000..21000 : d % 50 = 0}, ref \in {0, 1} }

\* companies with a revenue of 1,000,000 or none and a new contract of 10,800 a
\* year; with it the existing debt service of 189,200 / 389,200 / 589,200 comes
\* to exactly 20% / 40% / 60% of the revenue
B2BScoreCalls ==
    { [fn |-> "_score_b2b",
       request |-> RiskEvaluationRequest("REQ-1",
          [CustomerData EXCEPT !.party_type = "B2B", !.company_age_years = Some(25),
                               !.annual_ebitda = ebitda, !.annual_revenue = revenue,
                               !.total_debt_service = debt,
                               !.zefix_status = Some("ACTIVE"), !.legal_form = Some("AG"),
                               !.industry_risk = Some("Low"), !.crif_score = Some(720)],
          50000, 35000, 48, 900, Some(200), Some(36))] :
        ebitda \in {None, Some(500000)},
        revenue \in {None, Some(0), Some(1000000)},
        debt \in {None, Some(0), Some(100000), Some(189199), Some(189200), Some(195000),
                  Some(389199), Some(389200), Some(589199), Some(589200), Some(700000)} }

\* the same dates of birth for the Age step of the legacy scorecard
LegacyAgeCalls ==
    { [fn |-> "legacy_age", date_of_birth |-> -days, now |-> now] :
        days \in {d \in 6000..21000 : d % 50 = 0}, now \in {0, 1} }

FunctionCalls ==
    BandCalls \cup DscrCalls \cup RuleCalls \cup LtvCalls \cup AgeCalls
        \cup B2BScoreCalls \cup LegacyAgeCalls

InitFunctions ==
    /\ request \in FunctionCalls
    /\ today = 0
    /\ next_uuid = 0
    /\ response = NoResponse
    /\ prev_response = NoResponse
    /\ IdleApi
    /\ IdleAdmin

\* the band assignment at the end of compute_legacy_score
ApplyLegacyBand ==
    /\ request.fn = "legacy_band"
    /\ response = NoResponse
    /\ response' = Returned(LegacyBand(request.score))
    /\ UNCHANGED <<request, today, next_uuid, prev_response, apiVars, adminVars>>

ApplyCalculateDscr ==
    /\ request.fn = "calculate_dscr"
    /\ response = NoResponse
    /\ response' = Returned(calculate_dscr(request.customer, request.contract))
    /\ UNCHANGED <<request, today, next_uuid, prev_response, apiVars, adminVars>>

\* evaluate passes the DSCR output of the same request
ApplyCheckBusinessRules ==
    /\ request.fn = "_check_business_rules"
    /\ response = NoResponse
    /\ LET req == request.request
           dscr_output == calculate_dscr(req.customer, req.contract)
       IN  response' = Returned(_check_business_rules(req, dscr_output, today))
    /\ UNCHANGED <<request, today, next_uuid, prev_response, apiVars, adminVars>>

ApplyScoreLtv ==
    /\ request.fn = "score_ltv"
    /\ response = NoResponse
    /\ response' = Returned(score_ltv(request.financed_amount, request.vehicle_price))
    /\ UNCHANGED <<request, today, next_uuid, prev_response, apiVars, adminVars>>

ApplyScoreAge ==
    /\ request.fn = "score_age"
    /\ response = NoResponse
    /\ response' = Returned(score_age(request.date_of_birth, request.reference_date))
    /\ UNCHANGED <<request, today, next_uuid, prev_response, apiVars, adminVars>>

\* evaluate passes the DSCR output of the same request
ApplyScoreB2B ==
    /\ request.fn = "_score_b2b"
    /\ response = NoResponse
    /\ LET req == request.request
           dscr_output == calculate_dscr(req.customer, req.contract)
       IN  response' = Returned(_score_b2b(req, dscr_output))
    /\ UNCHANGED <<request, today, next_uuid, prev_response, apiVars, adminVars>>

\* the Age step of compute_legacy_score: the delta added to the score
ApplyLegacyAge ==
    /\ request.fn = "legacy_age"
    /\ response = NoResponse
    /\ response' = Returned(LegacyAgePoints(request.date_of_birth, request.now))
    /\ UNCHANGED <<request, today, next_uuid, prev_response, apiVars, adminVars>>

NextFunctions ==
    \/ ApplyLegacyBand
    \/ ApplyCalculateDscr
    \/ ApplyCheckBusinessRules
    \/ ApplyScoreLtv
    \/ ApplyScoreAge
    \/ ApplyScoreB2B
    \/ ApplyLegacyAge

SpecFunctions == InitFunctions /\ [][NextFunctions]_vars

-----------------------------------------------------------------------------
(* Properties of evaluate *)

Responded == response.kind = "response"
RuleFired == response.business_rule_overrides # <<>>

\* C1: whenever the business rule check returns a non-empty list, the response
\* has tier RED and decision DECLINE, whatever total_score is.
C1_RuleForcesRed ==
    (Responded /\ RuleFired) =>
        (response.tier = "RED" /\ response.decision = "DECLINE")

\* a declined response whose score alone would have been auto-approved
C1_Witness ==
    /\ Responded /\ RuleFired
    /\ response.total_score >= 25
    /\ response.tier = "RED" /\ response.decision = "DECLINE"

\* C2: with no rule fired the tier is read off total_score alone: >= 25
\* BRIGHT_GREEN, 10..24 GREEN, 0..9 YELLOW, below 0 RED, and the decision is the
\* fixed image of that tier.
C2_LadderTier ==
    (Responded /\ ~RuleFired) =>
        /\ response.tier =
              (IF response.total_score >= 25 THEN "BRIGHT_GREEN"
               ELSE IF response.total_score >= 10 THEN "GREEN"
               ELSE IF response.total_score >= 0 THEN "YELLOW"
               ELSE "RED")
        /\ response.decision =
              (CASE response.tier = "BRIGHT_GREEN" -> "AUTO_APPROVE"
                 [] response.tier = "GREEN" -> "APPROVE_STANDARD"
                 [] response.tier = "YELLOW" -> "MANUAL_REVIEW"
                 [] response.tier = "RED" -> "DECLINE")

\* a rule-free response sitting exactly on a threshold
C2_Witness ==
    /\ Responded /\ ~RuleFired
    /\ response.total_score = 25
    /\ response.tier = "BRIGHT_GREEN"

B2CFactorNames ==
    {"LTV", "Term", "Age", "CRIF", "Intrum", "DSCR", "Permit", "VehiclePriceTier",
     "ZEK", "DealerRisk"}
B2BFactorNames ==
    {"LTV", "Term", "CompanyAge", "CRIF", "DebtRatio", "DSCR", "CompanyType",
     "VehiclePriceTier", "IndustryRisk", "DealerRisk"}

\* C3: a response holds exactly 10 factor scores, total_score is the sum of their
\* raw scores, and their names are exactly the 10 names of the party type.
C3_TenFactors ==
    Responded =>
        LET fs == response.factor_scores
        IN  /\ Len(fs) = 10
            /\ response.total_score =
                  fs[1].raw_score + fs[2].raw_score + fs[3].raw_score
                  + fs[4].raw_score + fs[5].raw_score + fs[6].raw_score
                  + fs[7].raw_score + fs[8].raw_score + fs[9].raw_score
                  + fs[10].raw_score
            /\ {fs[i].factor_name : i \in 1..Len(fs)} =
                  (IF request.customer.party_type = "B2B" THEN B2BFactorNames
                   ELSE B2CFactorNames)

C3_Witness ==
    /\ Responded
    /\ request.customer.party_type = "B2B"
    /\ Len(response.factor_scores) = 10
    /\ response.total_score # 0

\* C4: evaluate returns a response and never raises for a schema-valid request,
\* also when optional fields are absent.
C4_NeverRaises ==
    SchemaValid(request) => response.kind # "raised"

\* the two responses agree on everything but the wall-clock fields and the id
SameScoring(r1, r2) ==
    /\ r1.total_score = r2.total_score
    /\ r1.tier = r2.tier
    /\ r1.decision = r2.decision
    /\ r1.factor_scores = r2.factor_scores
    /\ r1.business_rule_overrides = r2.business_rule_overrides

\* C5: two invocations of evaluate on the identical request give the same
\* total_score, tier, decision, factor_scores and business_rule_overrides, also
\* when they happen at different times.
C5_SameRequestSameScoring ==
    (Responded /\ prev_response.kind = "response") =>
        SameScoring(prev_response, response)

\* C9: decision and probability_of_default are fixed functions of the final
\* tier; a request forced to RED by a rule gets PD 0.150 whatever its score.
C9_DecisionAndPdByTier ==
    Responded =>
        /\ <<response.tier, response.decision, response.probability_of_default>>
              \in { <<"BRIGHT_GREEN", "AUTO_APPROVE", 15>>,
                    <<"GREEN", "APPROVE_STANDARD", 35>>,
                    <<"YELLOW", "MANUAL_REVIEW", 70>>,
                    <<"RED", "DECLINE", 150>> }
        /\ RuleFired => response.probability_of_default = 150

\* a rule-forced RED with PD 0.150 on a score of 25 or more
C9_Witness ==
    /\ Responded /\ RuleFired
    /\ response.total_score >= 25
    /\ response.probability_of_default = 150

\* C10: the legacy score of a B2C request lies in 333..502.
C10_LegacyRange ==
    (Responded /\ request.customer.party_type = "B2C") =>
        /\ response.legacy_score # None
        /\ 333 <= response.legacy_score[1]
        /\ response.legacy_score[1] <= 502

\* C12: a response to a B2B request has no legacy score and no legacy band; a
\* response to a B2C request has both.
C12_LegacyOnlyForB2C ==
    Responded =>
        /\ request.customer.party_type = "B2B" =>
              (response.legacy_score = None /\ response.legacy_band = None)
        /\ request.customer.party_type = "B2C" =>
              (response.legacy_score # None /\ response.legacy_band # None)

\* a B2B request has been answered without legacy fields
C12_Witness ==
    /\ Responded
    /\ request.customer.party_type = "B2B"
    /\ response.legacy_score = None
    /\ response.legacy_band = None

C20_TotalScoreRange ==
    Responded => (-75 <= response.total_score /\ response.total_score <= 53)

\* the factor of the response with the given name
Factor(name) ==
    response.factor_scores[CHOOSE i \in DOMAIN response.factor_scores :
                               response.factor_scores[i].factor_name = name]

\* the rule codes the response reports
ReportedRules ==
    {response.business_rule_overrides[i].rule_code :
        i \in DOMAIN response.business_rule_overrides}

\* C23: a response whose dscr_value is negative carries the DSCR factor's
\* penalty of -8 (bin '<0 (Negative)' for B2C, '<1.0 (Cannot service)' for B2B)
\* and the BR-03 override, and its tier is RED.
C23_NegativeDscrPenaltyAndRule ==
    (Responded /\ response.dscr.dscr_value # None /\ response.dscr.dscr_value[1] < 0) =>
        /\ Factor("DSCR").raw_score = -8
        /\ Factor("DSCR").bin_label =
              IF request.customer.party_type = "B2B" THEN "<1.0 (Cannot service)"
              ELSE "<0 (Negative)"
        /\ "BR-03" \in ReportedRules
        /\ response.tier = "RED"

\* a B2C response with a negative DSCR whose other factors add up to 25 or more
C23_Witness ==
    /\ Responded
    /\ response.dscr.dscr_value # None /\ response.dscr.dscr_value[1] < 0
    /\ response.total_score - Factor("DSCR").raw_score >= 25
    /\ "BR-03" \in ReportedRules
    /\ response.tier = "RED"

\* C24: a response whose DSCR is not valid has tier RED: for a B2C request
\* BR-06 is reported, for a B2B request BR-B04; the MISSING bin of the DSCR
\* factor appears in declined responses only.
C24_InvalidDscrIsDeclined ==
    Responded =>
        /\ ~response.dscr.is_valid =>
              /\ response.tier = "RED"
              /\ request.customer.party_type = "B2C" => "BR-06" \in ReportedRules
              /\ request.customer.party_type = "B2B" => "BR-B04" \in ReportedRules
        /\ Factor("DSCR").bin_label = "MISSING" => response.tier = "RED"

\* a B2B request without EBITDA whose score alone would not be RED
C24_Witness ==
    /\ Responded
    /\ request.customer.party_type = "B2B"
    /\ ~response.dscr.is_valid
    /\ Factor("DSCR").bin_label = "MISSING"
    /\ response.total_score >= 10
    /\ ReportedRules = {"BR-B04"}
    /\ response.tier = "RED"

\* C25: in a response a hard-decline bin appears exactly when its rule is
\* reported: for B2C Age '<18 (minor)' with BR-01; for B2B CompanyAge '<2y (Too
\* new)' with BR-B03, CompanyType 'Dissolved/Suspended' with BR-B01 and 'Not in
\* Zefix' with BR-B02.
C25_DeclineBinsOnlyWithRules ==
    Responded =>
        IF request.customer.party_type = "B2C"
        THEN (Factor("Age").bin_label = "<18 (minor)") = ("BR-01" \in ReportedRules)
        ELSE /\ (Factor("CompanyAge").bin_label = "<2y (Too new)")
                    = ("BR-B03" \in ReportedRules)
             /\ (Factor("CompanyType").bin_label = "Dissolved/Suspended")
                    = ("BR-B01" \in ReportedRules)
             /\ (Factor("CompanyType").bin_label = "Not in Zefix")
                    = ("BR-B02" \in ReportedRules)

-----------------------------------------------------------------------------
(* Properties of evaluate_risk *)

\* C6: a call whose idempotency check finds a stored assessment for its
\* request_id ends there with status 200 and the response exactly as the storing
\* call computed it; evaluate is not invoked (no uuid is drawn, no response is
\* computed), no row is written, no event is published, and the call takes no
\* further step.
C6_DuplicateReturnsStored ==
    [][\A c \in DOMAIN calls :
        /\ ( /\ calls[c].pc = "select"
             /\ calls'[c].pc # "select"
             /\ \E row \in risk_assessment :
                    row.request_id = calls[c].request.request_id )
           => /\ calls'[c].pc = "done"
              /\ calls'[c].response = None
              /\ calls'[c].assessment = None
              /\ \E c0 \in DOMAIN calls :
                    /\ c0 # c
                    /\ calls[c0].assessment # None
                    /\ calls[c0].request.request_id = calls[c].request.request_id
                    /\ calls'[c].result = Some(Ok200(calls[c0].response[1]))
              /\ UNCHANGED <<next_uuid, risk_assessment, kafka_topic>>
        /\ calls[c].existing # None => calls'[c] = calls[c]
      ]_vars

\* a repeated request_id has been answered from the stored row, the first call
\* having published its event
C6_Witness ==
    \E c \in DOMAIN calls, c0 \in DOMAIN calls :
        /\ calls[c].existing # None
        /\ calls[c].pc = "done"
        /\ calls[c0].publish = "sent"
        /\ calls[c].result = Some(Ok200(calls[c0].response[1]))
        /\ next_uuid = 1
        /\ Cardinality(risk_assessment) = 1
        /\ Len(kafka_topic) = 1

\* C7: once publication has failed for a call, the call still goes on to return
\* status 200 with the response evaluate computed (same tier and decision), and
\* the row committed before publishing is still stored.
C7_PublishFailureHarmless ==
    \A c \in DOMAIN calls :
        calls[c].publish = "failed" =>
            /\ calls[c].pc \in {"return", "done"}
            /\ calls[c].pc = "done" =>
                 /\ calls[c].result = Some(Ok200(calls[c].response[1]))
                 /\ calls[c].result[1].body.tier = calls[c].response[1].tier
                 /\ calls[c].result[1].body.decision = calls[c].response[1].decision
            /\ \E row \in risk_assessment :
                 /\ row.assessment_id = calls[c].response[1].assessment_id
                 /\ row.request_id = calls[c].request.request_id
                 /\ row.response_payload = ResponseDump(calls[c].response[1])

\* a call has returned its response although start() raised on its producer
C7_Witness ==
    \E c \in DOMAIN calls :
        /\ calls[c].publish = "failed"
        /\ calls[c].pc = "done"
        /\ calls[c].producer # None
        /\ producers[calls[c].producer[1]] = "failed"
        /\ calls[c].result[1].status = 200
        /\ calls[c].assessment[1] \in risk_assessment

\* C26: whatever the interleaving of evaluate_risk calls carrying the same
\* request, at most one row is stored for a request_id, and all the calls that
\* have returned did so with status 200 and the same assessment_id, tier and
\* decision. (Requests on which evaluate itself raises are left aside.)
C26_ConcurrentDuplicatesAgree ==
    /\ \A row, other \in risk_assessment :
          row.request_id = other.request_id => row = other
    /\ \A c, d \in DOMAIN calls :
          (/\ calls[c].request = calls[d].request
           /\ calls[c].request.customer.date_of_birth # None
           /\ calls[c].pc = "done" /\ calls[d].pc = "done") =>
              LET first == calls[c].result[1]
                  second == calls[d].result[1]
              IN  /\ first.status = 200 /\ second.status = 200
                  /\ first.body.assessment_id = second.body.assessment_id
                  /\ first.body.tier = second.body.tier
                  /\ first.body.decision = second.body.decision

\* the calls in which evaluate raised
RaisedCalls ==
    {c \in DOMAIN calls : /\ calls[c].pc = "done" /\ calls[c].existing = None
                          /\ calls[c].response = None}

\* C28: every event on the topic was published by a call whose row, holding
\* the dumped request and response, is stored; a call in which evaluate raised
\* ended with an error, stored no row and published nothing, and no row holds
\* its request, so that the request is evaluated again when it is sent again.
C28_ScorePersistPublish ==
    /\ \A i \in DOMAIN kafka_topic :
          \E c \in DOMAIN calls :
              /\ calls[c].response # None
              /\ kafka_topic[i] = RiskEvent(calls[c].response[1])
              /\ \E row \in risk_assessment :
                    /\ row.request_id = kafka_topic[i].request_id
                    /\ row.assessment_id = kafka_topic[i].assessment_id
                    /\ row.request_payload = RequestDump(calls[c].request)
                    /\ row.response_payload = ResponseDump(calls[c].response[1])
    /\ \A c \in RaisedCalls :
          /\ calls[c].result[1].status = 500
          /\ calls[c].assessment = None
          /\ calls[c].publish = "none"
          /\ \A row \in risk_assessment :
                row.request_payload # RequestDump(calls[c].request)

\* evaluate raised in the first call; the second call, with the same
\* request_id, was evaluated, stored its row and then published its event
C28_Witness ==
    /\ Len(calls) = 2
    /\ RaisedCalls = {1}
    /\ calls[2].request.request_id = calls[1].request.request_id
    /\ calls[2].publish = "sent"
    /\ kafka_topic = <<RiskEvent(calls[2].response[1])>>
    /\ risk_assessment = {RiskAssessment(calls[2].request, calls[2].response[1])}

\* C30: a call that is about to send, or has sent, holds a producer whose
\* start() had completed when _get_producer returned it, and the cached
\* producer is never one whose start() failed.
C30_ProducerStartedBeforeSend ==
    /\ \A c \in DOMAIN calls :
          calls[c].sent_on # "none" => calls[c].sent_on = "started"
    /\ _producer # None => producers[_producer[1]] # "failed"

-----------------------------------------------------------------------------
(* Properties of evaluate under calibration changes *)

\* C8: whatever the admin API does to the calibration tables before, during
\* and after an evaluate call, the response's tier thresholds, decision, PD,
\* rules and bin scores are all those of one configuration, the one compiled
\* into the engine: no response mixes in a parameter of another version.
C8_OneConfigurationPerCall ==
    (Responded /\ evaluating.pc = "finished") =>
        ConsistentWith(CodeConfig, response)

\* a call during which the tables were changed, whose response does not fit
\* the tables of version 1.2.0 as they were when it ended
C8_Witness ==
    /\ Responded
    /\ evaluating.pc = "finished"
    /\ evaluating.tables_begin # evaluating.tables_end
    /\ ~ConsistentWith(TableConfig(evaluating.tables_end, "1.2.0"), response)
    /\ ConsistentWith(CodeConfig, response)

\* version_id was changed through the admin API and published afterwards, it is
\* the one PUBLISHED version and no publish_version call is in flight
ChangedThenPublished(version_id) ==
    /\ publish_txs = <<>>
    /\ \A v \in StoredVersions :
          (calibration.model_version[v] = "PUBLISHED") = (v = version_id)
    /\ \E i, j \in DOMAIN audit_log :
          /\ i < j
          /\ audit_log[i].action = "UPDATED" /\ audit_log[i].version_id = version_id
          /\ audit_log[j].action = "PUBLISHED" /\ audit_log[j].version_id = version_id

\* C21: an evaluate call that starts after a parameter of a version was changed
\* and the version was published scores with the changed parameter: the LTV
\* bin's raw_score, the tier's min_score and the rule's enabled flag are those
\* of the published version.
C21_CalibrationTakesEffect ==
    [][ (evaluating.pc = "idle" /\ evaluating'.pc = "scoring") =>
          \A v \in StoredVersions :
              ChangedThenPublished(v) =>
                  LET config == TableConfig(calibration, v)
                      scored == evaluating'.scored
                  IN  /\ scored.factor_scores[1].raw_score
                            = config.ltv_bins[scored.factor_scores[1].bin_label]
                      /\ \A i \in DOMAIN scored.overrides :
                            scored.overrides[i].rule_code \in config.rules
                      /\ scored.tier = IF scored.overrides # <<>> THEN "RED"
                                       ELSE LadderTier(config, scored.total_score) ]_vars

\* C22: a step of the admin API that changes a calibration table appends, in
\* the same step, one audit entry for each field it changed (version, table,
\* record, field and new value), and one PUBLISHED entry when it changes the
\* status of a version.
C22_ChangesAreAudited ==
    [][ LET added == SubSeq(audit_log', Len(audit_log) + 1, Len(audit_log'))
            Logged(v, table, record, field, value) ==
                Cardinality({i \in DOMAIN added :
                    /\ added[i].version_id = v /\ added[i].action = "UPDATED"
                    /\ added[i].table_name = table /\ added[i].record_id = record
                    /\ added[i].field_name = field /\ added[i].new_value = value}) = 1
            old == calibration
            new == calibration'
        IN  /\ Len(audit_log') >= Len(audit_log)
            /\ SubSeq(audit_log', 1, Len(audit_log)) = audit_log
            /\ \A v \in StoredVersions :
                /\ \A bin \in DOMAIN old.scoring_factor_bins[v] :
                      new.scoring_factor_bins[v][bin] # old.scoring_factor_bins[v][bin] =>
                          Logged(v, "scoring_factor_bins", bin, "raw_score",
                                 ToString(new.scoring_factor_bins[v][bin]))
                /\ \A tier \in DOMAIN old.scoring_tier_thresholds[v] :
                      LET was == old.scoring_tier_thresholds[v][tier]
                          is == new.scoring_tier_thresholds[v][tier]
                      IN  /\ is.min_score # was.min_score =>
                                Logged(v, "scoring_tier_thresholds", tier, "min_score",
                                       ToString(is.min_score[1]))
                          /\ is.estimated_pd # was.estimated_pd =>
                                Logged(v, "scoring_tier_thresholds", tier, "estimated_pd",
                                       ToString(is.estimated_pd))
                /\ \A rule \in DOMAIN old.business_rules[v] :
                      new.business_rules[v][rule].enabled # old.business_rules[v][rule].enabled =>
                          Logged(v, "business_rules", rule, "enabled",
                                 IF new.business_rules[v][rule].enabled THEN "True" ELSE "False")
            /\ new.model_version # old.model_version =>
                  Cardinality({i \in DOMAIN added : added[i].action = "PUBLISHED"}) = 1
      ]_vars

\* a tier of the draft version has a new min_score and a new estimated_pd, and
\* the log holds an entry for each of the two fields
C22_Witness ==
    /\ calibration.scoring_tier_thresholds["1.3.0"]["BRIGHT_GREEN"].min_score = Some(40)
    /\ calibration.scoring_tier_thresholds["1.3.0"]["BRIGHT_GREEN"].estimated_pd = 20
    /\ \E i, j \in DOMAIN audit_log :
          /\ audit_log[i].version_id = "1.3.0" /\ audit_log[i].field_name = "min_score"
          /\ audit_log[i].new_value = "40"
          /\ audit_log[j].version_id = "1.3.0" /\ audit_log[j].field_name = "estimated_pd"
          /\ audit_log[j].new_value = "20"

\* the versions with status PUBLISHED in the given tables
Published(tables) == {v \in StoredVersions : tables.model_version[v] = "PUBLISHED"}

\* C27: when publish_version(v) has committed, v is the one PUBLISHED version,
\* and at no time is more than one version PUBLISHED, also when the calls
\* overlap or name a version that does not exist.
C27_OnePublishedVersion ==
    [][ /\ Cardinality(Published(calibration')) <= 1
        /\ \A v \in AdminVersionIds :
              (/\ Len(audit_log') = Len(audit_log) + 1
               /\ audit_log'[Len(audit_log')].action = "PUBLISHED"
               /\ audit_log'[Len(audit_log')].version_id = v) =>
                  Published(calibration') = {v} ]_vars

-----------------------------------------------------------------------------
(* Properties of the functions *)

\* C11: the legacy band partitions the integer scores: above 428 is A, 401..428
\* is B, 381..400 is C, 361..380 is D, 360 and below is E; each score has
\* exactly one band and no higher score has a worse band.
C11_BandPartition ==
    (request.fn = "legacy_band" /\ response.kind = "returned") =>
        LET score == request.score
            band == response.value
            BandRank(b) == IF b = "A" THEN 5 ELSE IF b = "B" THEN 4
                           ELSE IF b = "C" THEN 3 ELSE IF b = "D" THEN 2 ELSE 1
        IN  /\ band \in {"A", "B", "C", "D", "E"}
            /\ (band = "A") = (score > 428)
            /\ (band = "B") = (401 <= score /\ score <= 428)
            /\ (band = "C") = (381 <= score /\ score <= 400)
            /\ (band = "D") = (361 <= score /\ score <= 380)
            /\ (band = "E") = (score <= 360)
            /\ \A call \in BandCalls :
                  call.score >= score => BandRank(LegacyBand(call.score)) >= BandRank(band)

\* the lowest score of band B has been banded
C11_Witness ==
    /\ request.fn = "legacy_band" /\ response.kind = "returned"
    /\ request.score = 401
    /\ response.value = "B"

\* C13: calculate_dscr returns for every customer and contract; a B2C customer
\* with no income (None or 0) and a B2B customer with no EBITDA (None or <= 0)
\* get is_valid = False, method FALLBACK and no dscr_value; in every output
\* dscr_value is None exactly when is_valid is False.
C13_MissingDataByValue ==
    (request.fn = "calculate_dscr" /\ response # NoResponse) =>
        /\ response.kind = "returned"
        /\ LET customer == request.customer
               out == response.value
               missing ==
                   IF customer.party_type = "B2B"
                   THEN customer.annual_ebitda = None \/ customer.annual_ebitda[1] <= 0
                   ELSE customer.monthly_net_income \in {None, Some(0)}
           IN  /\ missing => /\ out.is_valid = FALSE
                             /\ out.calculation_method = "FALLBACK"
                             /\ out.dscr_value = None
               /\ out.is_valid = FALSE => out.dscr_value = None
               /\ out.is_valid = TRUE => out.dscr_value # None

\* a B2C customer with an income of 0 got the fallback output
C13_Witness ==
    /\ request.fn = "calculate_dscr" /\ response.kind = "returned"
    /\ request.customer.party_type = "B2C"
    /\ request.customer.monthly_net_income = Some(0)
    /\ request.customer.annual_ebitda = Some(500000)
    /\ response.value.calculation_method = "FALLBACK"
    /\ response.value.is_valid = FALSE

\* C14: calculate_dscr takes its path from party_type alone. B2C with income > 0
\* and payment > 0: dscr_value is (income - rent - insurance - alimony -
\* obligations - 1485) / payment to 2 decimals, absent deductions counting 0,
\* valid with method B2C_NET_INCOME also when negative. B2B with EBITDA > 0:
\* dscr_value is ebitda / ((total_debt_service or 0) + 12 * payment) to 2
\* decimals, valid with method B2B_EBITDA.  dscr_value is in hundredths.
C14_DscrReference ==
    (request.fn = "calculate_dscr" /\ response.kind = "returned") =>
        LET customer == request.customer
            payment == request.contract.monthly_payment
            out == response.value
            Amount(x) == IF x = None THEN 0 ELSE x[1]
            \* h hundredths is n / d rounded to the nearest hundredth
            Nearest(h, n, d) == 2 * Abs(h * d - 100 * n) <= d
            disposable == customer.monthly_net_income[1] - Amount(customer.monthly_rent)
                            - Amount(customer.monthly_insurance)
                            - Amount(customer.monthly_alimony)
                            - Amount(customer.monthly_existing_obligations) - 1485
        IN  /\ (customer.party_type = "B2C" /\ customer.monthly_net_income # None
                  /\ customer.monthly_net_income[1] > 0 /\ payment > 0) =>
                    /\ out.is_valid = TRUE
                    /\ out.calculation_method = "B2C_NET_INCOME"
                    /\ out.dscr_value # None
                    /\ Nearest(out.dscr_value[1], disposable, payment)
            /\ (customer.party_type = "B2B" /\ customer.annual_ebitda # None
                  /\ customer.annual_ebitda[1] > 0) =>
                    /\ out.is_valid = TRUE
                    /\ out.calculation_method = "B2B_EBITDA"
                    /\ out.dscr_value # None
                    /\ Nearest(out.dscr_value[1], customer.annual_ebitda[1],
                               Amount(customer.total_debt_service) + 12 * payment)

\* a B2C customer who also has an EBITDA got a negative DSCR from the income:
\* (1000 - 1200 - 300 - 1485) / 7 = -283.57
C14_Witness ==
    /\ request.fn = "calculate_dscr" /\ response.kind = "returned"
    /\ request.customer.party_type = "B2C"
    /\ request.customer.annual_ebitda = Some(500000)
    /\ request.customer.monthly_net_income = Some(1000)
    /\ request.customer.monthly_rent = Some(1200)
    /\ request.customer.monthly_insurance = Some(300)
    /\ request.customer.monthly_alimony = None
    /\ request.customer.monthly_existing_obligations = None
    /\ request.contract.monthly_payment = 7
    /\ response.value.dscr_value = Some(-28357)
    /\ response.value.is_valid = TRUE

\* C16: _check_business_rules reports every rule whose condition holds, once,
\* and no other rule. BR-01, BR-04, BR-06 apply to B2C only, BR-B01..BR-B04 to
\* B2B only, BR-02, BR-03, BR-05, BR-07, BR-08 to both party types.
C16_AllRulesReported ==
    (request.fn = "_check_business_rules" /\ response.kind = "returned") =>
        LET req == request.request
            cust == req.customer
            overrides == response.value
            dscr == calculate_dscr(cust, req.contract)
            b2c == cust.party_type = "B2C"
            b2b == cust.party_type = "B2B"
            Holds(present, cond) == IF present THEN cond ELSE FALSE
            expected ==
                [r \in {"BR-01", "BR-02", "BR-03", "BR-04", "BR-05", "BR-06", "BR-B01",
                        "BR-B02", "BR-B03", "BR-B04", "BR-07", "BR-08"} |->
                 CASE r = "BR-01" ->
                        b2c /\ Holds(cust.date_of_birth # None,
                                     4 * (today - cust.date_of_birth[1]) < 18 * 1461)
                   [] r = "BR-02" ->
                        req.contract.financed_amount * 100 > 120 * req.vehicle.vehicle_price
                   [] r = "BR-03" -> Holds(dscr.dscr_value # None, dscr.dscr_value[1] < 0)
                   [] r = "BR-04" ->
                        b2c /\ cust.zek_has_entries = Some(TRUE)
                            /\ Holds(cust.zek_entry_count # None, cust.zek_entry_count[1] >= 3)
                   [] r = "BR-05" -> Holds(cust.crif_score # None, cust.crif_score[1] < 150)
                   [] r = "BR-06" ->
                        b2c /\ ~dscr.is_valid /\ cust.monthly_net_income \in {None, Some(0)}
                   [] r = "BR-B01" ->
                        b2b /\ cust.zefix_status \in {Some("DISSOLVED"), Some("SUSPENDED")}
                   [] r = "BR-B02" -> b2b /\ cust.zefix_status = Some("NOT_FOUND")
                   [] r = "BR-B03" ->
                        b2b /\ Holds(cust.company_age_years # None,
                                     cust.company_age_years[1] < 2)
                   [] r = "BR-B04" ->
                        b2b /\ ~dscr.is_valid
                            /\ (cust.annual_ebitda = None \/ cust.annual_ebitda[1] <= 0)
                   [] r = "BR-07" ->
                        Holds(req.dealer.dealer_default_rate # None,
                              req.dealer.dealer_default_rate[1] > 2000)
                   [] r = "BR-08" -> req.contract.term_months > 72]
        IN  \A r \in DOMAIN expected :
                Cardinality({i \in DOMAIN overrides : overrides[i].rule_code = r})
                    = IF expected[r] THEN 1 ELSE 0

\* a B2C request on which seven conditions hold has all seven reported
C16_Witness ==
    /\ request.fn = "_check_business_rules" /\ response.kind = "returned"
    /\ request.request.customer.party_type = "B2C"
    /\ request.request.customer.zefix_status = Some("DISSOLVED")
    /\ [i \in DOMAIN response.value |-> response.value[i].rule_code]
          = <<"BR-01", "BR-02", "BR-03", "BR-04", "BR-05", "BR-07", "BR-08">>

\* C17: score_ltv returns for every input; a price <= 0 gives bin MISSING with
\* score -5; otherwise, with LTV = financed / price * 100, LTV < 75 scores +8,
\* 75 <= LTV <= 85 scores +4, 85 < LTV <= 95 scores 0 and LTV > 95 scores -8.
C17_LtvBins ==
    (request.fn = "score_ltv" /\ response # NoResponse) =>
        /\ response.kind = "returned"
        /\ LET price == request.vehicle_price
               ltv_times_price == request.financed_amount * 100
               result == response.value
           IN  /\ price <= 0 => (result.bin_label = "MISSING" /\ result.raw_score = -5)
               /\ price > 0 =>
                    /\ result.bin_label # "MISSING"
                    /\ (result.raw_score = 8) = (ltv_times_price < 75 * price)
                    /\ (result.raw_score = 4) = (75 * price <= ltv_times_price
                                                   /\ ltv_times_price <= 85 * price)
                    /\ (result.raw_score = 0) = (85 * price < ltv_times_price
                                                   /\ ltv_times_price <= 95 * price)
                    /\ (result.raw_score = -8) = (ltv_times_price > 95 * price)

\* an LTV of exactly 75% has been scored +4
C17_Witness ==
    /\ request.fn = "score_ltv" /\ response.kind = "returned"
    /\ request.financed_amount = 150 /\ request.vehicle_price = 200
    /\ response.value.bin_label = "75-85%"
    /\ response.value.raw_score = 4

\* C18: score_age gives every date of birth and reference date one of the bins
\* <18 (-10), 18-25 (-6), 26-35 (+2), 36-45 (0), 46-55 (+7), 56+ (-2), and the
\* age in years reported in raw_value lies in the year range the bin is
\* labelled with.
C18_AgeBinHoldsReportedAge ==
    (request.fn = "score_age" /\ response.kind = "returned") =>
        LET result == response.value
            bins == { <<"<18 (minor)", -10, 0, 17>>, <<"18-25", -6, 18, 25>>,
                      <<"26-35", 2, 26, 35>>, <<"36-45", 0, 36, 45>>,
                      <<"46-55", 7, 46, 55>>, <<"56+", -2, 56, 150>> }
        IN  \E bin \in bins :
                /\ result.bin_label = bin[1]
                /\ result.raw_score = bin[2]
                /\ \E years \in bin[3]..bin[4] : result.raw_value = ToString(years)

\* the DebtRatio factor among the factors _score_b2b returned
DebtRatioFactor ==
    LET results == response.value
    IN  results[CHOOSE i \in DOMAIN results : results[i].factor_name = "DebtRatio"]

\* the score of the bin of debt_service / revenue, for a revenue > 0
DebtRatioBinScore(debt_service, revenue) ==
    IF 100 * debt_service < 20 * revenue THEN 5
    ELSE IF 100 * debt_service < 40 * revenue THEN 2
    ELSE IF 100 * debt_service < 60 * revenue THEN -2
    ELSE -6

\* C19 as stated: the DebtRatio factor of a B2B request is the bin of
\* customer.total_debt_service / customer.annual_revenue; a missing
\* total_debt_service, a missing revenue or a revenue <= 0 gives MISSING (-4),
\* below 20% +5, 20-40% +2, 40-60% -2, 60% and more -6.
C19_DebtRatioOfExistingDebt ==
    (request.fn = "_score_b2b" /\ response.kind = "returned") =>
        LET cust == request.request.customer
            missing == \/ cust.total_debt_service = None
                       \/ cust.annual_revenue = None
                       \/ cust.annual_revenue[1] <= 0
        IN  IF missing
            THEN DebtRatioFactor.bin_label = "MISSING" /\ DebtRatioFactor.raw_score = -4
            ELSE /\ DebtRatioFactor.bin_label # "MISSING"
                 /\ DebtRatioFactor.raw_score
                      = DebtRatioBinScore(cust.total_debt_service[1], cust.annual_revenue[1])

\* C19, amended: the DebtRatio factor of a B2B request is the bin of
\* ((total_debt_service or 0) + 12 * monthly_payment) / annual_revenue; only a
\* missing revenue or a revenue <= 0 gives MISSING (-4); below 20% +5, 20-40%
\* +2, 40-60% -2, 60% and more -6.
C19_DebtRatioWithNewContract ==
    (request.fn = "_score_b2b" /\ response.kind = "returned") =>
        LET cust == request.request.customer
            existing == IF cust.total_debt_service = None THEN 0
                        ELSE cust.total_debt_service[1]
            total == existing + 12 * request.request.contract.monthly_payment
        IN  IF cust.annual_revenue = None \/ cust.annual_revenue[1] <= 0
            THEN DebtRatioFactor.bin_label = "MISSING" /\ DebtRatioFactor.raw_score = -4
            ELSE /\ DebtRatioFactor.bin_label # "MISSING"
                 /\ DebtRatioFactor.raw_score
                      = DebtRatioBinScore(total, cust.annual_revenue[1])

\* existing debt of 19.5% of the revenue is scored in the 20-40% bin
C19_Witness ==
    /\ request.fn = "_score_b2b" /\ response.kind = "returned"
    /\ request.request.customer.total_debt_service = Some(195000)
    /\ request.request.customer.annual_revenue = Some(1000000)
    /\ DebtRatioFactor.bin_label = "20-40% (Moderate)"
    /\ DebtRatioFactor.raw_score = 2

\* C29: the legacy scorecard adds one Age delta for every applicant aged 18 or
\* more, that of the age band the composite Age factor puts the applicant in:
\* 18-25 -16, 26-35 +6, 36-45 -3, 46-55 +28, 56+ -8; under 18 no delta.
C29_LegacyAgeBands ==
    (request.fn = "legacy_age" /\ response.kind = "returned") =>
        LET band == score_age(request.date_of_birth, request.now).bin_label
            delta == response.value
        IN  /\ band = "<18 (minor)" => delta = 0
            /\ band = "18-25" => delta = -16
            /\ band = "26-35" => delta = 6
            /\ band = "36-45" => delta = -3
            /\ band = "46-55" => delta = 28
            /\ band = "56+" => delta = -8

=============================================================================
